---- MODULE Spec2Model ----
(***************************************************************************)
(* Model of bevy-generative-grammars: the Grammar trait (generator.rs),    *)
(* its Tracery implementation and the stateless / stateful string          *)
(* generators (tracery.rs).                                                *)
(*                                                                         *)
(* A Rust String is modelled as a sequence of one-character strings, so    *)
(* that the parser's splitting is computed, not assumed.  Option<T> is     *)
(* modelled as a sequence of length 0 (None) or 1 (Some).                  *)
(***************************************************************************)
EXTENDS Integers, Sequences, FiniteSets, TLC

VARIABLES
    grammar,          \* the TraceryGrammar given to / owned by the generator
    temporary_grammar,\* the scratch grammar `tmp` of the call in flight
    pc,               \* position of the program: "idle", "depth_first", "breadth_first",
                      \* "return" (the strategy has returned), "done" (the call has returned)
    call,             \* the facade call in flight: [facade, op, key, initial], and
                      \* the grammar it started from (base)
    queue,            \* `queue` of the running strategy (a Vec: the last element is popped)
    results,          \* depth-first `results`: stack of (target, Vec<ResultType>)
    frame,            \* breadth-first: the popped (target, current) being mapped token by
                      \* token, with the results collected so far (`next`)
    append_to_queue,  \* breadth-first `append_to_queue`
    result,           \* breadth-first `result`; at pc = "return", the stream the strategy returns
    tmp_result,       \* breadth-first `tmp_result`
    depth,            \* the `depth` counter of the running strategy
    ret,              \* at pc = "done": what the call returned (Option<String>)
    rng_calls,        \* number of get_number queries made by the call in flight
    last,             \* observation of the last loop step: what was popped and how it resolved
    hist,             \* observation (not program state): what the call in flight has bound and
                      \* resolved so far, and what earlier stateful calls bound
    probe             \* a library function called directly: its name, arguments and result

vars == <<grammar, temporary_grammar, pc, call, queue, results, frame, append_to_queue,
          result, tmp_result, depth, ret, rng_calls, last, hist, probe>>

-----------------------------------------------------------------------------
(* Option<T> *)

None == <<>>
Some(x) == <<x>>
IsSome(o) == Len(o) = 1
Unwrap(o) == o[1]

Min(a, b) == IF a <= b THEN a ELSE b

-----------------------------------------------------------------------------
(* Strings as sequences of characters                                      *)

RECURSIVE Flatten(_)
\* [String]::join(""), tracery.rs result_to_stream
Flatten(ss) == IF ss = <<>> THEN <<>> ELSE Head(ss) \o Flatten(Tail(ss))

Reverse(s) == [i \in 1..Len(s) |-> s[Len(s) + 1 - i]]

Contains(s, c) == \E i \in 1..Len(s) : s[i] = c

\* position of the first character of s that is in cs, 0 if none
FirstOf(s, cs) ==
    IF \E i \in 1..Len(s) : s[i] \in cs
    THEN CHOOSE i \in 1..Len(s) : s[i] \in cs /\ \A j \in 1..(i-1) : s[j] \notin cs
    ELSE 0

RECURSIVE SplitFrom(_, _, _)
\* the segments of s, given the position i of its first c (0: none)
SplitFrom(s, c, i) ==
    IF i = 0 THEN <<s>>
    ELSE <<SubSeq(s, 1, i - 1)>>
         \o SplitFrom(SubSeq(s, i + 1, Len(s)), c, FirstOf(SubSeq(s, i + 1, Len(s)), {c}))

\* str::split(c): n occurrences of c give n+1 segments, empty ones included
Split(s, c) == SplitFrom(s, c, FirstOf(s, {c}))

RECURSIVE SplitInclusiveFrom(_, _, _)
SplitInclusiveFrom(s, cs, i) ==
    IF s = <<>> THEN <<>>
    ELSE IF i = 0 THEN <<s>>
    ELSE <<SubSeq(s, 1, i)>>
         \o SplitInclusiveFrom(SubSeq(s, i + 1, Len(s)), cs,
                               FirstOf(SubSeq(s, i + 1, Len(s)), cs))

\* str::split_inclusive(&[..]): every segment keeps its terminator; no trailing
\* empty segment; the empty string gives no segment
SplitInclusive(s, cs) == SplitInclusiveFrom(s, cs, FirstOf(s, cs))

-----------------------------------------------------------------------------
(* Replacable<String, String>, generator.rs 5-14                            *)

Ready(v) == [type |-> "Ready", key |-> <<>>, value |-> v]
Replace(k) == [type |-> "Replace", key |-> k, value |-> <<>>]
ImmediateMeta(k, v) == [type |-> "ImmediateMeta", key |-> k, value |-> v]
DelayedMeta(k, v) == [type |-> "DelayedMeta", key |-> k, value |-> v]
\* MetaRuleProcessingResult::Raw, generator.rs 365-372
Raw(v) == [type |-> "Raw", key |-> <<>>, value |-> v]

-----------------------------------------------------------------------------
(* TraceryGrammar::check_token_stream, tracery.rs 121-190                   *)

\* tracery.rs 135-145: `key` still ends with its separator
MetaRule(key, value) ==
    IF key[Len(key)] = ":"
    THEN ImmediateMeta(SubSeq(key, 1, Len(key) - 1), value)
    ELSE DelayedMeta(SubSeq(key, 1, Len(key) - 1), value)

\* tracery.rs 133-148: kv = inner.split_inclusive(&[':', '|'])
InnerSegment(inner, kv) == IF Len(kv) >= 2 THEN MetaRule(kv[1], kv[2]) ELSE Raw(inner)

\* tracery.rs 131-155: split = v.split(']')
SegmentOf(split) ==
    <<InnerSegment(split[1], SplitInclusive(split[1], {":", "|"}))>>
    \o [i \in 1..(Len(split) - 1) |-> Raw(split[i + 1])]

\* the closure of the first flat_map for a segment that follows a '[' (inside = true)
BracketSegment(v) == SegmentOf(Split(v, "]"))

\* tracery.rs 125-160: segs = stream.split('[')
BracketPassOf(segs) ==
    <<Raw(segs[1])>> \o Flatten([i \in 1..(Len(segs) - 1) |-> BracketSegment(segs[i + 1])])

BracketPass(stream) == BracketPassOf(Split(stream, "["))

\* the placeholder pass without the `v.is_empty()` test of tracery.rs 169-171
PlaceholderOfKeepsEmpty(parts) ==
    Flatten([i \in 1..Len(parts) |->
                IF i % 2 = 1 THEN <<Ready(parts[i])>> ELSE <<Replace(parts[i])>>])

\* tracery.rs 164-178: parts = v.split('#'), alternately literal and reference
PlaceholderOf(parts) ==
    Flatten([i \in 1..Len(parts) |->
                IF i % 2 = 1
                THEN (IF parts[i] = <<>> THEN <<>> ELSE <<Ready(parts[i])>>)
                ELSE <<Replace(parts[i])>>])

\* the closure of the second flat_map on Raw(v)
PlaceholderPass(v) == PlaceholderOf(Split(v, "#"))

\* tracery.rs 161-187
TokensOf(metas) ==
    Flatten([i \in 1..Len(metas) |->
                IF metas[i].type = "Raw" THEN PlaceholderPass(metas[i].value)
                ELSE <<metas[i]>>])

\* tracery.rs 189.  has_meta is set by every segment after a '[' (129);
\* has_replacements by every Replace token emitted (174)
Checked(stream, tokens) ==
    [skippable |-> /\ ~(\E i \in 1..Len(tokens) : tokens[i].type = "Replace")
                   /\ ~Contains(stream, "["),
     tokens |-> tokens]

check_token_stream(stream) == Checked(stream, TokensOf(BracketPass(stream)))

-----------------------------------------------------------------------------
(* TraceryGrammar, tracery.rs 28-33: rules (HashMap), keys (Vec),            *)
(* starting_point                                                          *)

origin == <<"o", "r", "i", "g", "i", "n">>

\* TraceryGrammar::empty, tracery.rs 73-79
empty == [rules |-> [k \in {} |-> <<>>], keys |-> <<>>, starting_point |-> origin]

\* TraceryGrammar::new, tracery.rs 83-101.  rules: sequence of <<key, options>>;
\* collecting into the HashMap keeps the last pair of a repeated key
new(rules, starting_point) ==
    [rules |-> [k \in {rules[i][1] : i \in 1..Len(rules)} |->
                   LET i == CHOOSE i \in 1..Len(rules) :
                                /\ rules[i][1] = k
                                /\ \A j \in (i+1)..Len(rules) : rules[j][1] # k
                   IN  rules[i][2]],
     keys |-> [i \in 1..Len(rules) |-> rules[i][1]],
     starting_point |-> IF IsSome(starting_point) THEN Unwrap(starting_point)
                        ELSE origin]

rule_keys(g) == g.keys
has_rule(g, rule) == rule \in DOMAIN g.rules
default_starting_point(g) == g.starting_point
get_rule_options(g, rule) == IF rule \in DOMAIN g.rules THEN Some(g.rules[rule]) ELSE None

\* tracery.rs 192-194: format!("#{rule}#")
rule_to_default_result(rule) == <<"#">> \o rule \o <<"#">>
\* tracery.rs 200-202
result_to_stream(res) == Flatten(res)
\* tracery.rs 209-211
stream_to_result(stream) == <<stream>>
\* generator.rs 123-125
max_depth == 50

\* deserialization leaving an absent starting point empty instead of "origin"
deserialize_without_default(rules, order, starting_point) ==
    [rules |-> rules,
     keys |-> order,
     starting_point |-> IF IsSome(starting_point) THEN Unwrap(starting_point)
                        ELSE <<>>]

\* impl Deserialize for TraceryGrammar, tracery.rs 46-67: the key list is collected
\* from the HashMap's keys, in the map's iteration order `order`
deserialize(rules, order, starting_point) ==
    [rules |-> rules,
     keys |-> order,
     starting_point |-> IF IsSome(starting_point) THEN Unwrap(starting_point)
                        ELSE origin]

\* set_additional_rules extending the options already there instead of replacing them
set_additional_rules_merges(g, rule, values) ==
    [g EXCEPT !.keys = Append(@, rule),
              !.rules = [k \in (DOMAIN @) \cup {rule} |->
                            IF k = rule
                            THEN (IF rule \in DOMAIN @ THEN @[k] ELSE <<>>) \o values
                            ELSE @[k]]]

\* set_additional_rules without `keys.push`: only the mapping is updated
set_additional_rules_keeps_keys(g, rule, values) ==
    [g EXCEPT !.rules = [k \in (DOMAIN @) \cup {rule} |->
                            IF k = rule THEN values ELSE @[k]]]

\* tracery.rs 204-207: keys.push(rule.clone()); rules.insert(rule, values.into())
set_additional_rules(g, rule, values) ==
    [g EXCEPT !.keys = Append(@, rule),
              !.rules = [k \in (DOMAIN @) \cup {rule} |->
                            IF k = rule THEN values ELSE @[k]]]

RECURSIVE CopyFrom(_, _, _)
CopyFrom(self, other, i) ==
    IF i > Len(rule_keys(other)) THEN self
    ELSE LET rule == rule_keys(other)[i]
             values == get_rule_options(other, rule)
         IN  CopyFrom(IF IsSome(values)
                      THEN set_additional_rules(self, rule, Unwrap(values))
                      ELSE self,
                      other, i + 1)

\* copy_and_replace_rules starting from a cleared receiver
copy_and_replace_rules_clears(self, other) ==
    CopyFrom([self EXCEPT !.rules = empty.rules, !.keys = <<>>], other, 1)

\* generator.rs 112-119
copy_and_replace_rules(self, other) == CopyFrom(self, other, 1)

\* select_from_rule without the clamp `max.min(..)`: the index is the number
\* source's value as returned
select_from_rule_unclamped(g, rule, v) ==
    IF has_rule(g, rule)
    THEN LET options == g.rules[rule]
             len == Len(options)
             index == v
         IN  IF index < len THEN Some(options[index + 1]) ELSE None
    ELSE None

\* select_from_rule wrapping a value beyond the last option around instead of
\* clamping it
select_from_rule_wraps(g, rule, v) ==
    IF has_rule(g, rule)
    THEN LET options == g.rules[rule]
             len == Len(options)
         IN  IF len >= 1 THEN Some(options[(v % len) + 1]) ELSE None
    ELSE None

\* generator.rs 80-94, given the value `v` that rng.get_number(len) returns.
\* The number source is queried exactly when the rule exists.
select_from_rule(g, rule, v) ==
    IF has_rule(g, rule)
    THEN LET options == g.rules[rule]
             len == Len(options)
             max == IF len >= 1 THEN len - 1 ELSE 0
             index == Min(max, v)
         IN  IF index < len THEN Some(options[index + 1]) ELSE None
    ELSE None

\* number of get_number calls select_from_rule makes
Queries(g, rule) == IF has_rule(g, rule) THEN 1 ELSE 0

-----------------------------------------------------------------------------
(* Bounds and inputs                                                       *)

\* the number source returns values in 0..MaxRng
MaxRng == 2
\* number of stateful calls that reach the commit point (each grows the key list)
MaxStatefulCalls == 2

RngVals == 0..MaxRng

\* rule table in the shape of tracery.rs RULES / the tests, with short names:
\* c = creature, h = hero, n = next, s = set, d = delayed alias, l = loop,
\* g = a rule that grows at each pass, m = an unclosed bracket
RULES ==
    << <<origin,  << <<"[","h",":","#","c","#","]","a","#","h","#">> >> >>,
       << <<"c">>, << <<"x">>, <<"y">>, <<"z">> >> >>,
       << <<"n">>, << <<"#","h","#","b">>, <<"b","#","h","#">> >> >>,
       << <<"s">>, << <<"[","h",":","#","c","#","]">> >> >>,
       << <<"d">>, << <<"[","w","|","#","c","#","]","#","w","#","#","w","#">> >> >>,
       << <<"l">>, << <<"#","l","#">> >> >>,
       << <<"g">>, << <<"a","#","g","#">> >> >>,
       << <<"m">>, << <<"a","[","b">> >> >>,
       << <<"e">>, << >> >>,
       << <<"t">>, << <<"a","b">> >> >> >>

\* the grammars a program may build
Grammars ==
    { new(RULES, None),
      new(<< <<<<"t">>, << <<"a">>, <<"#","c","#","b">> >> >>,
             <<<<"c">>, << <<"x">>, <<"y">> >> >> >>, Some(<<"t">>)),
      new(<< <<<<"t">>, << <<"a","]">> >> >> >>, Some(<<"t">>)),
      empty }

\* keys a caller may pass to generate_at
CallKeys ==
    {origin, <<"c">>, <<"n">>, <<"s">>, <<"d">>, <<"l">>, <<"m">>, <<"e">>, <<"t">>, <<"u">>}

\* streams a caller may pass to expand_from / the processing functions
Streams ==
    { <<"a","b">>,
      <<"#","s","#","a","#","h","#">>,
      <<"a","#","u","#","b">>,
      <<"#","h","#">>,
      <<"a","[","h",":","#","c","#","]">>,
      <<"[","h",":","#","s","#","]","#","h","#","b">>,
      <<"[","c","|","a","]","#","c","#">>,
      <<"[","c",":","#","s","#","]","#","c","#">>,
      <<"#","g","#">>,
      <<"a","]">>,
      <<"a","[","b">> }

-----------------------------------------------------------------------------
(* State                                                                   *)

\* `call`: the facade ("stateless", "stateful", or "direct" for a strategy called
\* directly), the operation, its key argument with the options the grammar had for
\* it at the call, and the stream handed to process_stream
NoCall == [facade |-> "none", op |-> "none", key |-> None, options |-> None, initial |-> None,
           base |-> empty]
\* `last`: the (target, item) popped by the last loop step, the accumulator it
\* committed, and for a selection: which grammar answered (source), the options
\* queried, the value v the number source returned, select_from_rule's answer and
\* the text the placeholder resolved to
NoLast == [target |-> None, item |-> Ready(<<>>), committed |-> None, appended |-> None,
           source |-> "none", queried |-> None, v |-> 0, answer |-> None,
           resolved |-> None]

\* `hist`, across calls: stateful_calls counts the stateful calls that reached the
\* commit point; promised: keys whose last meta-rule processed by a finished
\* stateful call was immediate, in a generate or generate_at call; bound: the
\* immediate values the stateful calls committed.
\* Within the call in flight: metas: keys of the meta-rule tokens processed;
\* opened: those whose last processed meta-rule was immediate; immediate: those
\* whose scratch rule was committed from an immediate meta-rule; unknown: keys
\* resolved to the default result because neither grammar had a rule for them;
\* choices: the index min(n - 1, v) of the option selected at each placeholder of
\* the call, in the order of the selections; tmp_target: the target of the
\* breadth-first frame whose stream is held in tmp_result
NoHist == [stateful_calls |-> 0, promised |-> {}, bound |-> [k \in {} |-> <<>>],
           metas |-> {}, opened |-> {}, immediate |-> {}, unknown |-> {},
           choices |-> <<>>, tmp_target |-> None]

ResetCall(h) == [h EXCEPT !.metas = {}, !.opened = {}, !.immediate = {}, !.unknown = {},
                          !.tmp_target = None]

\* the observations after a loop step on `item`, whose selection (if any) is in l
Observe(immediate, item, l) ==
    [hist EXCEPT !.immediate = immediate,
                 !.metas = IF item.type \in {"ImmediateMeta", "DelayedMeta"}
                           THEN @ \cup {item.key} ELSE @,
                 !.opened = IF item.type = "ImmediateMeta" THEN @ \cup {item.key}
                            ELSE IF item.type = "DelayedMeta" THEN @ \ {item.key}
                            ELSE @,
                 !.unknown = IF l.source = "default" /\ l.queried = None
                             THEN @ \cup {item.key} ELSE @,
                 !.choices = IF item.type = "Replace" /\ IsSome(l.queried)
                                /\ Unwrap(l.queried) # <<>>
                             THEN Append(@, Min(Len(Unwrap(l.queried)) - 1, l.v))
                             ELSE @]

NoProbe == [op |-> "none"]

NoFrame == [target |-> None, current |-> <<>>, next |-> <<>>]

Init ==
    /\ grammar \in Grammars
    /\ temporary_grammar = empty
    /\ pc = "idle"
    /\ call = NoCall
    /\ queue = <<>>
    /\ results = <<>>
    /\ frame = NoFrame
    /\ append_to_queue = <<>>
    /\ result = <<>>
    /\ tmp_result = None
    /\ depth = 0
    /\ ret = None
    /\ rng_calls = 0
    /\ last = NoLast
    /\ hist = NoHist
    /\ probe = NoProbe

Top(s) == s[Len(s)]
Pop(s) == SubSeq(s, 1, Len(s) - 1)

-----------------------------------------------------------------------------
(* Entering Grammar::process_stream -> depth_first_processing,             *)
(* generator.rs 129-143 and 241-257 (TraceryGrammar::processing_direction  *)
(* is DepthFirst, tracery.rs 196-198)                                      *)

WithTarget(target, tokens) == [i \in 1..Len(tokens) |-> [target |-> target, item |-> tokens[i]]]

\* the early return of generator.rs 249-251 giving the empty accumulator's text
\* instead of the stream
EnterDepthFirstDropsStream(stream) ==
    \E checked \in {check_token_stream(stream)} :
        /\ temporary_grammar' = empty
        /\ frame' = NoFrame
        /\ append_to_queue' = <<>>
        /\ tmp_result' = None
        /\ depth' = 0
        /\ hist' = ResetCall(hist)
        /\ IF checked.skippable
           THEN /\ queue' = <<>>
                /\ results' = <<>>
                /\ result' = <<>>
                /\ pc' = "return"
           ELSE /\ queue' = Reverse(WithTarget(None, checked.tokens))
                /\ results' = << [target |-> None, values |-> <<>>] >>
                /\ result' = <<>>
                /\ pc' = IF checked.tokens = <<>> THEN "return" ELSE "depth_first"

\* the tokens of the stream pushed in source order, so that the last is popped first
EnterDepthFirstUnreversed(stream) ==
    \E checked \in {check_token_stream(stream)} :
        /\ temporary_grammar' = empty
        /\ frame' = NoFrame
        /\ append_to_queue' = <<>>
        /\ tmp_result' = None
        /\ depth' = 0
        /\ hist' = ResetCall(hist)
        /\ IF checked.skippable
           THEN /\ queue' = <<>>
                /\ results' = <<>>
                /\ result' = stream
                /\ pc' = "return"
           ELSE /\ queue' = WithTarget(None, checked.tokens)
                /\ results' = << [target |-> None, values |-> <<>>] >>
                /\ result' = <<>>
                /\ pc' = IF checked.tokens = <<>> THEN "return" ELSE "depth_first"

EnterDepthFirst(stream) ==
    \E checked \in {check_token_stream(stream)} :
        /\ temporary_grammar' = empty
        /\ frame' = NoFrame
        /\ append_to_queue' = <<>>
        /\ tmp_result' = None
        /\ depth' = 0
        /\ hist' = ResetCall(hist)
        /\ IF checked.skippable
           THEN /\ queue' = <<>>
                /\ results' = <<>>
                /\ result' = stream
                /\ pc' = "return"
           ELSE /\ queue' = Reverse(WithTarget(None, checked.tokens))
                /\ results' = << [target |-> None, values |-> <<>>] >>
                /\ result' = <<>>
                /\ pc' = IF checked.tokens = <<>> THEN "return" ELSE "depth_first"

\* generate_at registering the key it found nothing for in the owned grammar
GenerateAtRegistersKey(facade, op, key) ==
    \E v \in RngVals :
    \E initial \in {select_from_rule(grammar, key, v)} :
        /\ call' = [facade |-> facade, op |-> op, key |-> Some(key),
                    options |-> get_rule_options(grammar, key), initial |-> initial,
                    base |-> grammar]
        /\ rng_calls' = Queries(grammar, key)
        /\ ret' = None
        /\ last' = [NoLast EXCEPT !.source = "base",
                                  !.queried = get_rule_options(grammar, key),
                                  !.v = v, !.answer = initial]
        /\ IF IsSome(initial)
           THEN /\ EnterDepthFirst(Unwrap(initial))
                /\ grammar' = grammar
           ELSE /\ pc' = "done"
                /\ grammar' = IF facade = "stateful"
                              THEN set_additional_rules(grammar, key, <<>>)
                              ELSE grammar
                /\ UNCHANGED <<temporary_grammar, queue, results, frame,
                               append_to_queue, result, tmp_result, depth, hist>>
        /\ UNCHANGED probe

\* StringGenerator::generate_at / StatefulStringGenerator::generate_at,
\* tracery.rs 225-232 and 275-284
GenerateAt(facade, op, key) ==
    \E v \in RngVals :
    \E initial \in {select_from_rule(grammar, key, v)} :
        /\ call' = [facade |-> facade, op |-> op, key |-> Some(key),
                    options |-> get_rule_options(grammar, key), initial |-> initial,
                    base |-> grammar]
        /\ rng_calls' = Queries(grammar, key)
        /\ ret' = None
        /\ last' = [NoLast EXCEPT !.source = "base",
                                  !.queried = get_rule_options(grammar, key),
                                  !.v = v, !.answer = initial]
        /\ IF IsSome(initial)
           THEN EnterDepthFirst(Unwrap(initial))
           ELSE /\ pc' = "done"
                /\ UNCHANGED <<temporary_grammar, queue, results, frame,
                               append_to_queue, result, tmp_result, depth, hist>>
        /\ UNCHANGED <<grammar, probe>>

\* StringGenerator::expand_from / StatefulStringGenerator::expand_from,
\* tracery.rs 234-241 and 286-292
ExpandFrom(facade, initial) ==
    /\ call' = [facade |-> facade, op |-> "expand_from", key |-> None, options |-> None,
                initial |-> Some(initial), base |-> grammar]
    /\ rng_calls' = 0
    /\ ret' = None
    /\ last' = NoLast
    /\ EnterDepthFirst(initial)
    /\ UNCHANGED <<grammar, probe>>

\* the facade calls: generate is generate_at on the default starting point
\* (tracery.rs 218-223 and 270-273)
Call(facade) ==
    \/ GenerateAt(facade, "generate", default_starting_point(grammar))
    \/ \E key \in CallKeys : GenerateAt(facade, "generate_at", key)
    \/ \E initial \in Streams : ExpandFrom(facade, initial)

\* impl Generator for StringGenerator, tracery.rs 217-242
StatelessCall ==
    /\ pc = "idle"
    /\ Call("stateless")

\* impl StatefulGenerator for StatefulStringGenerator, tracery.rs 269-295
StatefulCall ==
    /\ pc = "idle"
    /\ hist.stateful_calls < MaxStatefulCalls
    /\ Call("stateful")

-----------------------------------------------------------------------------
(* One iteration of the loop of depth_first_processing, generator.rs 258-326 *)

\* generator.rs 268-277: the popped accumulator is folded into one value and set
\* as the rule of its target
CommitPopped(popped, tmp, values) ==
    [results |-> Pop(results),
     tmp |-> IF IsSome(popped.target)
             THEN set_additional_rules(tmp, Unwrap(popped.target), values)
             ELSE tmp,
     committed |-> IF IsSome(popped.target)
                   THEN Some([key |-> Unwrap(popped.target), values |-> values])
                   ELSE None]

\* the commit storing the accumulator's values as they are, one option each,
\* without the conversion to a stream and back
DfCommitKeepsValues(target) ==
    IF Len(results) > 1 /\ Top(results).target # target
    THEN CommitPopped(Top(results), temporary_grammar, Top(results).values)
    ELSE [results |-> results, tmp |-> temporary_grammar, committed |-> None]

\* generator.rs 259-278: the top accumulator is popped, and committed under its
\* target, when the popped token belongs to another target
DfCommit(target) ==
    IF Len(results) > 1 /\ Top(results).target # target
    THEN CommitPopped(Top(results), temporary_grammar,
                      stream_to_result(result_to_stream(Top(results).values)))
    ELSE [results |-> results, tmp |-> temporary_grammar, committed |-> None]

\* the lookup with the base grammar consulted before the scratch grammar
ResolvedBaseFirst(tmp, base, key, v1, v2, s, b) ==
    IF IsSome(b)
    THEN [source |-> "base", queried |-> get_rule_options(base, key), v |-> v2,
          answer |-> b, resolved |-> Unwrap(b), queries |-> 1]
    ELSE IF IsSome(s)
    THEN [source |-> "scratch", queried |-> get_rule_options(tmp, key), v |-> v1,
          answer |-> s, resolved |-> Unwrap(s), queries |-> Queries(base, key) + 1]
    ELSE [source |-> "default",
          queried |-> IF has_rule(base, key) THEN get_rule_options(base, key)
                      ELSE get_rule_options(tmp, key),
          v |-> IF has_rule(base, key) THEN v2 ELSE v1,
          answer |-> None, resolved |-> rule_to_default_result(key),
          queries |-> Queries(tmp, key) + Queries(base, key)]

\* the lookup asking both grammars for their selection before choosing between them
ResolvedQueriesBoth(tmp, base, key, v1, v2, s, b) ==
    IF IsSome(s)
    THEN [source |-> "scratch", queried |-> get_rule_options(tmp, key), v |-> v1,
          answer |-> s, resolved |-> Unwrap(s), queries |-> 1 + Queries(base, key)]
    ELSE IF IsSome(b)
    THEN [source |-> "base", queried |-> get_rule_options(base, key), v |-> v2,
          answer |-> b, resolved |-> Unwrap(b), queries |-> Queries(tmp, key) + 1]
    ELSE [source |-> "default",
          queried |-> IF has_rule(base, key) THEN get_rule_options(base, key)
                      ELSE get_rule_options(tmp, key),
          v |-> IF has_rule(base, key) THEN v2 ELSE v1,
          answer |-> None, resolved |-> rule_to_default_result(key),
          queries |-> Queries(tmp, key) + Queries(base, key)]

\* the answers s, b of select_from_rule on the scratch and on the base grammar
Resolved(tmp, base, key, v1, v2, s, b) ==
    IF IsSome(s)
    THEN [source |-> "scratch", queried |-> get_rule_options(tmp, key), v |-> v1,
          answer |-> s, resolved |-> Unwrap(s), queries |-> 1]
    ELSE IF IsSome(b)
    THEN [source |-> "base", queried |-> get_rule_options(base, key), v |-> v2,
          answer |-> b, resolved |-> Unwrap(b), queries |-> Queries(tmp, key) + 1]
    ELSE [source |-> "default",
          queried |-> IF has_rule(base, key) THEN get_rule_options(base, key)
                      ELSE get_rule_options(tmp, key),
          v |-> IF has_rule(base, key) THEN v2 ELSE v1,
          answer |-> None, resolved |-> rule_to_default_result(key),
          queries |-> Queries(tmp, key) + Queries(base, key)]

\* generator.rs 289-297 and 172-180: scratch grammar first, then the base grammar,
\* then the default result.  v1, v2: what the number source returns to the two queries
Resolve(tmp, base, key, v1, v2) ==
    Resolved(tmp, base, key, v1, v2,
             select_from_rule(tmp, key, v1), select_from_rule(base, key, v2))

\* the values the number source may return to the queries of one placeholder:
\* a query is made only to a grammar that has the rule, and to the base grammar
\* only when the scratch grammar gave nothing
Draws(tmp, base, key) ==
    {d \in RngVals \X RngVals :
        /\ (~has_rule(tmp, key) => d[1] = 0)
        /\ (~has_rule(base, key) \/ IsSome(select_from_rule(tmp, key, d[1])) => d[2] = 0)}

\* the loop's exit with the ceiling tested by `>` instead of `>=`
DfLoopEndOffByOne(queue1, results1) ==
    /\ depth' = depth + 1
    /\ IF depth + 1 > max_depth \/ queue1 = <<>>
       THEN /\ pc' = "return"
            /\ result' = result_to_stream(results1[1].values)
       ELSE /\ pc' = "depth_first"
            /\ result' = result
    /\ queue' = queue1
    /\ results' = results1
    /\ UNCHANGED <<grammar, call, frame, append_to_queue, tmp_result, ret, probe>>

\* the loop's exit writing the scratch grammar's rules into the base grammar at
\* every iteration
DfLoopEndCommitsEarly(queue1, results1) ==
    /\ depth' = depth + 1
    /\ IF depth + 1 >= max_depth \/ queue1 = <<>>
       THEN /\ pc' = "return"
            /\ result' = result_to_stream(results1[1].values)
       ELSE /\ pc' = "depth_first"
            /\ result' = result
    /\ queue' = queue1
    /\ results' = results1
    /\ grammar' = copy_and_replace_rules(grammar, temporary_grammar)
    /\ UNCHANGED <<call, frame, append_to_queue, tmp_result, ret, probe>>

\* the loop's exit giving back the stream it was called with when the ceiling
\* cuts the expansion off
DfLoopEndReturnsStreamAtCeiling(queue1, results1) ==
    /\ depth' = depth + 1
    /\ IF depth + 1 >= max_depth \/ queue1 = <<>>
       THEN /\ pc' = "return"
            /\ result' = IF queue1 = <<>> THEN result_to_stream(results1[1].values)
                          ELSE Unwrap(call.initial)
       ELSE /\ pc' = "depth_first"
            /\ result' = result
    /\ queue' = queue1
    /\ results' = results1
    /\ UNCHANGED <<grammar, call, frame, append_to_queue, tmp_result, ret, probe>>

\* the loop's exit: `break` at the depth ceiling, or queue.pop() gives None;
\* generator.rs 322-332
DfLoopEnd(queue1, results1) ==
    /\ depth' = depth + 1
    /\ IF depth + 1 >= max_depth \/ queue1 = <<>>
       THEN /\ pc' = "return"
            /\ result' = result_to_stream(results1[1].values)
       ELSE /\ pc' = "depth_first"
            /\ result' = result
    /\ queue' = queue1
    /\ results' = results1
    /\ UNCHANGED <<grammar, call, frame, append_to_queue, tmp_result, ret, probe>>

\* what one iteration leaves in the scratch grammar and in the observations
DfEffect(c, tmp, immediate, l, queries) ==
    /\ temporary_grammar' = tmp
    /\ hist' = Observe(immediate, l.item, l)
    /\ last' = [l EXCEPT !.committed = c.committed]
    /\ rng_calls' = rng_calls + queries

Committed(c) == IF IsSome(c.committed) THEN {Unwrap(c.committed).key} ELSE {}

DfPopped(type) == pc = "depth_first" /\ queue # <<>> /\ Top(queue).item.type = type

\* the Ready arm putting the value in front of the accumulator's text
DfReadyPrepends ==
    /\ DfPopped("Ready")
    /\ \E head \in {Top(queue)} :
       \E c \in {DfCommit(head.target)} :
           /\ DfEffect(c, c.tmp, hist.immediate \cup Committed(c),
                       [NoLast EXCEPT !.target = head.target, !.item = head.item,
                                      !.appended = Some(Top(c.results).target)],
                       0)
           /\ DfLoopEnd(Pop(queue),
                        [c.results EXCEPT ![Len(c.results)].values = <<head.item.value>> \o @])

\* generator.rs 283-288
DfReady ==
    /\ DfPopped("Ready")
    /\ \E head \in {Top(queue)} :
       \E c \in {DfCommit(head.target)} :
           /\ DfEffect(c, c.tmp, hist.immediate \cup Committed(c),
                       [NoLast EXCEPT !.target = head.target, !.item = head.item,
                                      !.appended = Some(Top(c.results).target)],
                       0)
           /\ DfLoopEnd(Pop(queue),
                        [c.results EXCEPT ![Len(c.results)].values = Append(@, head.item.value)])

\* generator.rs 289-304
DfReplace ==
    /\ DfPopped("Replace")
    /\ \E head \in {Top(queue)} :
       \E c \in {DfCommit(head.target)} :
       \E d \in Draws(c.tmp, grammar, head.item.key) :
       \E r \in {Resolve(c.tmp, grammar, head.item.key, d[1], d[2])} :
           /\ DfEffect(c, c.tmp, hist.immediate \cup Committed(c),
                       [NoLast EXCEPT !.target = head.target, !.item = head.item,
                                      !.source = r.source, !.queried = r.queried,
                                      !.v = r.v, !.answer = r.answer,
                                      !.resolved = Some(r.resolved)],
                       r.queries)
           /\ DfLoopEnd(Pop(queue) \o Reverse(WithTarget(head.target,
                            check_token_stream(result_to_stream(<<r.resolved>>)).tokens)),
                        c.results)

\* generator.rs 305-313 and 319-321
DfImmediateMeta ==
    /\ DfPopped("ImmediateMeta")
    /\ \E head \in {Top(queue)} :
       \E c \in {DfCommit(head.target)} :
           /\ DfEffect(c, c.tmp, hist.immediate \cup Committed(c),
                       [NoLast EXCEPT !.target = head.target, !.item = head.item], 0)
           /\ DfLoopEnd(Pop(queue) \o Reverse(WithTarget(Some(head.item.key),
                            check_token_stream(result_to_stream(<<head.item.value>>)).tokens)),
                        Append(c.results, [target |-> Some(head.item.key), values |-> <<>>]))

\* a delayed meta-rule handled as an immediate one: its value is expanded at once
DfDelayedMetaExpandsEarly ==
    /\ DfPopped("DelayedMeta")
    /\ \E head \in {Top(queue)} :
       \E c \in {DfCommit(head.target)} :
           /\ DfEffect(c, c.tmp, hist.immediate \cup Committed(c),
                       [NoLast EXCEPT !.target = head.target, !.item = head.item], 0)
           /\ DfLoopEnd(Pop(queue) \o Reverse(WithTarget(Some(head.item.key),
                            check_token_stream(result_to_stream(<<head.item.value>>)).tokens)),
                        Append(c.results, [target |-> Some(head.item.key), values |-> <<>>]))

\* generator.rs 314-316
DfDelayedMeta ==
    /\ DfPopped("DelayedMeta")
    /\ \E head \in {Top(queue)} :
       \E c \in {DfCommit(head.target)} :
           /\ DfEffect(c, set_additional_rules(c.tmp, head.item.key, <<head.item.value>>),
                       (hist.immediate \cup Committed(c)) \ {head.item.key},
                       [NoLast EXCEPT !.target = head.target, !.item = head.item], 0)
           /\ DfLoopEnd(Pop(queue), c.results)

-----------------------------------------------------------------------------
(* Grammar::breadth_first_processing, generator.rs 146-238, called on the  *)
(* grammar with a fresh scratch grammar                                    *)

\* generator.rs 152-165, and the first queue.pop() of the loop
BreadthFirstEnter(stream) ==
       \E checked \in {check_token_stream(stream)} :
            /\ call' = [facade |-> "direct", op |-> "breadth_first_processing",
                        key |-> None, options |-> None, initial |-> Some(stream),
                        base |-> grammar]
            /\ temporary_grammar' = empty
            /\ queue' = <<>>
            /\ results' = <<>>
            /\ append_to_queue' = <<>>
            /\ tmp_result' = None
            /\ depth' = 0
            /\ result' = stream
            /\ rng_calls' = 0
            /\ ret' = None
            /\ last' = NoLast
            /\ hist' = ResetCall(hist)
            /\ IF checked.skippable
               THEN /\ frame' = NoFrame
                    /\ pc' = "return"
               ELSE /\ frame' = [target |-> None, current |-> checked.tokens, next |-> <<>>]
                    /\ pc' = "breadth_first"
            /\ UNCHANGED <<grammar, probe>>

\* grammar.breadth_first_processing(&stream, &mut scratch, rng)
BreadthFirstProcessing ==
    /\ pc = "idle"
    /\ \E stream \in Streams : BreadthFirstEnter(stream)

BfMapping(type) ==
    pc = "breadth_first" /\ frame.current # <<>> /\ Head(frame.current).type = type

\* the filter_map closure on one token, generator.rs 169-197
BfToken(tmp, next, append, immediate, l, queries) ==
    /\ temporary_grammar' = tmp
    /\ frame' = [frame EXCEPT !.current = Tail(@), !.next = next]
    /\ append_to_queue' = append
    /\ hist' = Observe(immediate, Head(frame.current), l)
    /\ last' = [l EXCEPT !.target = frame.target, !.item = Head(frame.current)]
    /\ rng_calls' = rng_calls + queries
    /\ UNCHANGED <<grammar, pc, call, queue, results, result, tmp_result, depth, ret,
                   probe>>

\* generator.rs 171
BfReady ==
    /\ BfMapping("Ready")
    /\ BfToken(temporary_grammar, Append(frame.next, Head(frame.current).value),
               append_to_queue, hist.immediate, NoLast, 0)

\* generator.rs 172-180
BfReplace ==
    /\ BfMapping("Replace")
    /\ \E key \in {Head(frame.current).key} :
       \E d \in Draws(temporary_grammar, grammar, key) :
       \E r \in {Resolve(temporary_grammar, grammar, key, d[1], d[2])} :
           BfToken(temporary_grammar, Append(frame.next, r.resolved),
                   append_to_queue, hist.immediate,
                   [NoLast EXCEPT !.source = r.source, !.queried = r.queried,
                                  !.v = r.v, !.answer = r.answer,
                                  !.resolved = Some(r.resolved)],
                   r.queries)

\* generator.rs 181-190
BfImmediateMeta ==
    /\ BfMapping("ImmediateMeta")
    /\ \E head \in {Head(frame.current)} :
       \E checked \in {check_token_stream(result_to_stream(<<head.value>>))} :
           IF checked.skippable
           THEN BfToken(set_additional_rules(temporary_grammar, head.key, <<head.value>>),
                        frame.next, append_to_queue, hist.immediate \cup {head.key},
                        [NoLast EXCEPT !.committed =
                            Some([key |-> head.key, values |-> <<head.value>>])],
                        0)
           ELSE BfToken(temporary_grammar, frame.next,
                        Append(append_to_queue,
                               [target |-> Some(head.key), current |-> checked.tokens]),
                        hist.immediate, NoLast, 0)

\* generator.rs 191-194
BfDelayedMeta ==
    /\ BfMapping("DelayedMeta")
    /\ \E head \in {Head(frame.current)} :
           BfToken(set_additional_rules(temporary_grammar, head.key, <<head.value>>),
                   frame.next, append_to_queue, hist.immediate \ {head.key}, NoLast, 0)

\* `continue` / the next `while let Some((target, current)) = queue.pop()`
BfContinue(queue1) ==
    IF queue1 = <<>>
    THEN /\ pc' = "return"
         /\ queue' = <<>>
         /\ frame' = NoFrame
    ELSE /\ pc' = "breadth_first"
         /\ queue' = Pop(queue1)
         /\ frame' = [target |-> Top(queue1).target, current |-> Top(queue1).current,
                      next |-> <<>>]

BfBreak ==
    /\ pc' = "return"
    /\ queue' = queue
    /\ frame' = NoFrame

\* set_additional_rules(target, stream_to_result(..)) of generator.rs 205-206, 226-227
BfCommit(target, values) ==
    /\ temporary_grammar' = set_additional_rules(temporary_grammar, target, values)
    /\ hist' = [hist EXCEPT !.immediate = @ \cup {target}, !.tmp_target = None]
    /\ last' = [NoLast EXCEPT !.target = Some(target),
                              !.committed = Some([key |-> target, values |-> values])]

BfNoCommit(target) ==
    /\ temporary_grammar' = temporary_grammar
    /\ hist' = [hist EXCEPT !.tmp_target = IF IsSome(target) THEN target ELSE @]
    /\ last' = [NoLast EXCEPT !.target = target]

\* the iteration's tail leaving the root's stream as it was instead of taking the
\* new one (generator.rs 214-216)
BfAdvanceKeepsResult(target, next, checked, tmp_result1) ==
    /\ depth' = depth + 1
    /\ result' = result
    /\ IF depth + 1 >= max_depth
       THEN \* generator.rs 219-221
            /\ BfNoCommit(target)
            /\ tmp_result' = tmp_result1
            /\ UNCHANGED append_to_queue
            /\ BfBreak
       ELSE IF checked.skippable /\ IsSome(target)
       THEN \* generator.rs 224-229
            /\ BfCommit(Unwrap(target), stream_to_result(Unwrap(tmp_result1)))
            /\ tmp_result' = None
            /\ UNCHANGED append_to_queue
            /\ BfContinue(queue)
       ELSE IF checked.skippable
       THEN \* generator.rs 230-232
            /\ BfNoCommit(target)
            /\ tmp_result' = tmp_result1
            /\ UNCHANGED append_to_queue
            /\ BfBreak
       ELSE \* generator.rs 234-235
            /\ BfNoCommit(target)
            /\ tmp_result' = tmp_result1
            /\ append_to_queue' = <<>>
            /\ BfContinue(Append(queue, [target |-> target, current |-> checked.tokens])
                          \o append_to_queue)

\* generator.rs 218 on: depth += 1, the ceiling, the re-parse of `next`
BfAdvance(target, next, checked, tmp_result1) ==
    /\ depth' = depth + 1
    /\ result' = IF IsSome(target) THEN result ELSE next
    /\ IF depth + 1 >= max_depth
       THEN \* generator.rs 219-221
            /\ BfNoCommit(target)
            /\ tmp_result' = tmp_result1
            /\ UNCHANGED append_to_queue
            /\ BfBreak
       ELSE IF checked.skippable /\ IsSome(target)
       THEN \* generator.rs 224-229
            /\ BfCommit(Unwrap(target), stream_to_result(Unwrap(tmp_result1)))
            /\ tmp_result' = None
            /\ UNCHANGED append_to_queue
            /\ BfContinue(queue)
       ELSE IF checked.skippable
       THEN \* generator.rs 230-232
            /\ BfNoCommit(target)
            /\ tmp_result' = tmp_result1
            /\ UNCHANGED append_to_queue
            /\ BfBreak
       ELSE \* generator.rs 234-235
            /\ BfNoCommit(target)
            /\ tmp_result' = tmp_result1
            /\ append_to_queue' = <<>>
            /\ BfContinue(Append(queue, [target |-> target, current |-> checked.tokens])
                          \o append_to_queue)

\* the rest of the iteration once every token is mapped, generator.rs 200-235
BfFrameEnd ==
    /\ pc = "breadth_first" /\ frame.current = <<>>
    /\ \E target \in {frame.target} :
       \E next \in {result_to_stream(frame.next)} :
           /\ IF IsSome(target) /\ IsSome(tmp_result) /\ Unwrap(tmp_result) = next
              THEN \* generator.rs 203-209
                   /\ BfCommit(Unwrap(target), stream_to_result(next))
                   /\ tmp_result' = None
                   /\ UNCHANGED <<result, depth, append_to_queue>>
                   /\ BfContinue(queue)
              ELSE IF ~IsSome(target) /\ result = next
              THEN \* generator.rs 212-213
                   /\ BfNoCommit(target)
                   /\ UNCHANGED <<result, depth, append_to_queue, tmp_result>>
                   /\ BfBreak
              ELSE BfAdvance(target, next, check_token_stream(next),
                             IF IsSome(target) THEN Some(next) ELSE tmp_result)
           /\ UNCHANGED <<grammar, call, results, ret, rng_calls, probe>>

-----------------------------------------------------------------------------
(* The facade's tail once process_stream has returned: tracery.rs 231,     *)
(* 240-241 (stateless) and 283, 293-294 (stateful)                         *)

\* immediate bindings a stateful call leaves committed: those of the scratch
\* grammar replace what earlier calls bound under the same keys
Bound(old, tmp, immediate) ==
    [k \in ((DOMAIN old) \ (DOMAIN tmp.rules)) \cup immediate |->
        IF k \in immediate THEN tmp.rules[k][1] ELSE old[k]]

\* the tail of the stateful facade (the commit) run by every facade
ReturnCommitsAlways ==
    /\ pc = "return"
    /\ grammar' = copy_and_replace_rules(grammar, temporary_grammar)
    /\ hist' = IF call.facade = "stateful"
               THEN ResetCall([hist EXCEPT
                        !.stateful_calls = @ + 1,
                        !.promised = (@ \ hist.metas) \cup
                                     (IF call.op = "expand_from" THEN {}
                                      ELSE hist.opened),
                        !.bound = Bound(@, temporary_grammar, hist.immediate)])
               ELSE ResetCall(hist)
    /\ ret' = Some(result)
    /\ pc' = "done"
    /\ temporary_grammar' = empty
    /\ queue' = <<>>
    /\ results' = <<>>
    /\ frame' = NoFrame
    /\ append_to_queue' = <<>>
    /\ result' = <<>>
    /\ tmp_result' = None
    /\ UNCHANGED <<call, depth, rng_calls, last, probe>>

\* the tail of the stateful facade leaving the commit out after an expansion that
\* stopped at the depth ceiling
ReturnSkipsCommitAtCeiling ==
    /\ pc = "return"
    /\ grammar' = IF call.facade = "stateful" /\ depth < max_depth
                  THEN copy_and_replace_rules(grammar, temporary_grammar)
                  ELSE grammar
    /\ hist' = IF call.facade = "stateful"
               THEN ResetCall([hist EXCEPT
                        !.stateful_calls = @ + 1,
                        !.promised = (@ \ hist.metas) \cup
                                     (IF call.op = "expand_from" THEN {}
                                      ELSE hist.opened),
                        !.bound = Bound(@, temporary_grammar, hist.immediate)])
               ELSE ResetCall(hist)
    /\ ret' = Some(result)
    /\ pc' = "done"
    /\ temporary_grammar' = empty
    /\ queue' = <<>>
    /\ results' = <<>>
    /\ frame' = NoFrame
    /\ append_to_queue' = <<>>
    /\ result' = <<>>
    /\ tmp_result' = None
    /\ UNCHANGED <<call, depth, rng_calls, last, probe>>

Return ==
    /\ pc = "return"
    /\ grammar' = IF call.facade = "stateful"
                  THEN copy_and_replace_rules(grammar, temporary_grammar)
                  ELSE grammar
    /\ hist' = IF call.facade = "stateful"
               THEN ResetCall([hist EXCEPT
                        !.stateful_calls = @ + 1,
                        !.promised = (@ \ hist.metas) \cup
                                     (IF call.op = "expand_from" THEN {}
                                      ELSE hist.opened),
                        !.bound = Bound(@, temporary_grammar, hist.immediate)])
               ELSE ResetCall(hist)
    /\ ret' = Some(result)
    /\ pc' = "done"
    /\ temporary_grammar' = empty
    /\ queue' = <<>>
    /\ results' = <<>>
    /\ frame' = NoFrame
    /\ append_to_queue' = <<>>
    /\ result' = <<>>
    /\ tmp_result' = None
    /\ UNCHANGED <<call, depth, rng_calls, last, probe>>

\* the caller takes the returned Option (examples/without_bevy_stateful.rs 55-64)
\* and the generator is ready for the next call
Consume ==
    /\ pc = "done"
    /\ pc' = "idle"
    /\ call' = NoCall
    /\ ret' = None
    /\ depth' = 0
    /\ rng_calls' = 0
    /\ last' = NoLast
    /\ hist' = [hist EXCEPT !.choices = <<>>]
    /\ UNCHANGED <<grammar, temporary_grammar, queue, results, frame, append_to_queue,
                   result, tmp_result, probe>>

Next ==
    \/ StatelessCall
    \/ StatefulCall
    \/ DfReady
    \/ DfReplace
    \/ DfImmediateMeta
    \/ DfDelayedMeta
    \/ BreadthFirstProcessing
    \/ BfReady
    \/ BfReplace
    \/ BfImmediateMeta
    \/ BfDelayedMeta
    \/ BfFrameEnd
    \/ Return
    \/ Consume

Spec == Init /\ [][Next]_vars

-----------------------------------------------------------------------------
(* A program that builds and updates a TraceryGrammar through its own       *)
(* functions: new, empty, deserialization, set_additional_rules and         *)
(* copy_and_replace_rules.  `grammar` is the grammar being built; `probe`   *)
(* records the last function applied, its arguments and the grammar before. *)

\* the key list never grows beyond MaxKeys entries
MaxKeys == 4

LibraryKeys == {<<"h">>, <<"c">>}
LibraryOptions == {<<>>, << <<"x">> >>, << <<"x">>, <<"y">> >>}
LibraryStart == {None, Some(<<"c">>)}

\* the (key, options) slices a program may pass to TraceryGrammar::new; a key may
\* be repeated
RuleLists ==
    {<<>>}
    \cup {<< <<k, o>> >> : k \in LibraryKeys, o \in LibraryOptions}
    \cup {<< <<k1, <<<<"x">>>> >>, <<k2, o>> >> :
              k1 \in LibraryKeys, k2 \in LibraryKeys, o \in LibraryOptions}

\* the orders in which a HashMap may iterate over the keys in S
Orders(S) ==
    {f \in [1..Cardinality(S) -> S] : \A i, j \in 1..Cardinality(S) : f[i] = f[j] => i = j}

\* every variable of the generator at rest
AtRest ==
    /\ temporary_grammar = empty
    /\ call = NoCall
    /\ queue = <<>>
    /\ results = <<>>
    /\ frame = NoFrame
    /\ append_to_queue = <<>>
    /\ result = <<>>
    /\ tmp_result = None
    /\ depth = 0
    /\ ret = None
    /\ rng_calls = 0
    /\ last = NoLast
    /\ hist = NoHist

StaysAtRest ==
    UNCHANGED <<temporary_grammar, pc, call, queue, results, frame, append_to_queue,
                result, tmp_result, depth, ret, rng_calls, last, hist>>

GrammarInit ==
    /\ grammar = empty
    /\ pc = "library"
    /\ probe = NoProbe
    /\ AtRest

\* TraceryGrammar::empty
Empty ==
    /\ pc = "library"
    /\ grammar' = empty
    /\ probe' = [op |-> "empty"]
    /\ StaysAtRest

\* TraceryGrammar::new / StatefulStringGenerator::new
New ==
    /\ pc = "library"
    /\ \E rules \in RuleLists, starting_point \in LibraryStart :
           /\ grammar' = new(rules, starting_point)
           /\ probe' = [op |-> "new", rules |-> rules, starting_point |-> starting_point]
    /\ StaysAtRest

\* TraceryGrammar::deserialize of a {rules, starting_point} document
Deserialize ==
    /\ pc = "library"
    /\ \E D \in SUBSET LibraryKeys :
       \E rules \in [D -> LibraryOptions] :
       \E order \in Orders(D) :
       \E starting_point \in LibraryStart :
           /\ grammar' = deserialize(rules, order, starting_point)
           /\ probe' = [op |-> "deserialize", rules |-> rules,
                        starting_point |-> starting_point]
    /\ StaysAtRest

\* grammar.set_additional_rules(rule, values)
SetAdditionalRules ==
    /\ pc = "library"
    /\ Len(grammar.keys) < MaxKeys
    /\ \E rule \in LibraryKeys, values \in LibraryOptions :
           /\ grammar' = set_additional_rules(grammar, rule, values)
           /\ probe' = [op |-> "set_additional_rules", self |-> grammar,
                        rule |-> rule, values |-> values]
    /\ StaysAtRest

\* grammar.copy_and_replace_rules(&other), other built by TraceryGrammar::new
CopyAndReplaceRules ==
    /\ pc = "library"
    /\ \E rules \in RuleLists :
       \E other \in {new(rules, None)} :
           /\ Len(grammar.keys) + Len(other.keys) <= MaxKeys
           /\ grammar' = copy_and_replace_rules(grammar, other)
           /\ probe' = [op |-> "copy_and_replace_rules", self |-> grammar,
                        other |-> other]
    /\ StaysAtRest

GrammarNext ==
    \/ Empty
    \/ New
    \/ Deserialize
    \/ SetAdditionalRules
    \/ CopyAndReplaceRules

GrammarSpec == GrammarInit /\ [][GrammarNext]_vars

-----------------------------------------------------------------------------
(* The number sources handed to the generators: each implementation of      *)
(* GrammarRandomNumberGenerator::get_number, called directly.               *)

\* lengths asked for, and numbers a closure or a constant may hold
MaxNumber == 5

Numbers == 0..MaxNumber

\* generator.rs 40-47: impl for T: FnMut(usize) -> usize; `answer` is what the
\* closure returns when it is called
closure_get_number(answer, len) == IF len = 0 THEN 0 ELSE answer

\* generator.rs 49-53: impl for usize
usize_get_number(self, len) == self

\* grammar_rng_rand.rs 13-20 and 33-40, grammar_rng_turborand.rs 13-20 and 33-40:
\* `drawn` is what gen_range(0..len) / usize(0..len) returns
range_get_number(drawn, len) == IF len = 0 THEN 0 ELSE drawn

\* the values gen_range(0..len) can return; the range is not sampled when len = 0
Range(len) == IF len = 0 THEN {0} ELSE 0..(len - 1)

Asked(adapter, state, len, out) ==
    [op |-> "get_number", adapter |-> adapter, state |-> state, len |-> len, out |-> out]

NumberInit ==
    /\ grammar = empty
    /\ pc = "library"
    /\ probe = NoProbe
    /\ AtRest

ClosureGetNumber ==
    /\ pc = "library"
    /\ \E len \in Numbers, answer \in Numbers :
           probe' = Asked("closure", answer, len, closure_get_number(answer, len))
    /\ UNCHANGED grammar
    /\ StaysAtRest

UsizeGetNumber ==
    /\ pc = "library"
    /\ \E len \in Numbers, self \in Numbers :
           probe' = Asked("usize", self, len, usize_get_number(self, len))
    /\ UNCHANGED grammar
    /\ StaysAtRest

\* grammar_rng_rand.rs 13-20
RandGetNumber ==
    /\ pc = "library"
    /\ \E len \in Numbers :
       \E drawn \in Range(len) :
           probe' = Asked("Rand", drawn, len, range_get_number(drawn, len))
    /\ UNCHANGED grammar
    /\ StaysAtRest

\* grammar_rng_rand.rs 33-40
RandOwnedGetNumber ==
    /\ pc = "library"
    /\ \E len \in Numbers :
       \E drawn \in Range(len) :
           probe' = Asked("RandOwned", drawn, len, range_get_number(drawn, len))
    /\ UNCHANGED grammar
    /\ StaysAtRest

\* grammar_rng_turborand.rs 13-20
TurboRandGetNumber ==
    /\ pc = "library"
    /\ \E len \in Numbers :
       \E drawn \in Range(len) :
           probe' = Asked("TurboRand", drawn, len, range_get_number(drawn, len))
    /\ UNCHANGED grammar
    /\ StaysAtRest

\* grammar_rng_turborand.rs 33-40
TurboRandOwnedGetNumber ==
    /\ pc = "library"
    /\ \E len \in Numbers :
       \E drawn \in Range(len) :
           probe' = Asked("TurboRandOwned", drawn, len, range_get_number(drawn, len))
    /\ UNCHANGED grammar
    /\ StaysAtRest

NumberNext ==
    \/ ClosureGetNumber
    \/ UsizeGetNumber
    \/ RandGetNumber
    \/ RandOwnedGetNumber
    \/ TurboRandGetNumber
    \/ TurboRandOwnedGetNumber

NumberSpec == NumberInit /\ [][NumberNext]_vars

-----------------------------------------------------------------------------
(* TraceryGrammar::check_token_stream called directly on a stream.          *)

\* the longest stream parsed
MaxStream == 6

Alphabet == {"a", "#", "[", "]", ":", "|"}

ParserStreams == UNION {[1..n -> Alphabet] : n \in 0..MaxStream}

ParserInit ==
    /\ grammar = empty
    /\ pc = "library"
    /\ probe \in {[op |-> "stream", stream |-> stream] : stream \in ParserStreams}
    /\ AtRest

\* grammar.check_token_stream(&stream)
CheckTokenStream ==
    /\ pc = "library"
    /\ probe.op = "stream"
    /\ probe' = [op |-> "check_token_stream", stream |-> probe.stream,
                 out |-> check_token_stream(probe.stream)]
    /\ UNCHANGED grammar
    /\ StaysAtRest

ParserNext == CheckTokenStream

ParserSpec == ParserInit /\ [][ParserNext]_vars

-----------------------------------------------------------------------------
(* A program that keeps the outcome of one generate call and later runs     *)
(* generate again, on the same or on another grammar (set_grammar for the   *)
(* stateful generator, another argument for the stateless one).             *)

\* a grammar whose templates nest placeholders and hold several of them
Nested ==
    new(<< <<origin, << <<"#","c","#","a","#","n","#">>, <<"b">> >> >>,
           << <<"c">>, << <<"x">>, <<"y">> >> >>,
           << <<"n">>, << <<"#","c","#">>, <<"#","c","#","#","c","#">> >> >> >>, None)

ReplayGrammars == {new(RULES, None), Nested}

ReplayKeys == {<<"d">>}

ReplayInit ==
    /\ grammar \in ReplayGrammars
    /\ pc = "idle"
    /\ probe = NoProbe
    /\ AtRest

ReplayCall(facade) ==
    \/ GenerateAt(facade, "generate", default_starting_point(grammar))
    \/ \E key \in ReplayKeys : GenerateAt(facade, "generate_at", key)

ReplayStatelessCall ==
    /\ pc = "idle"
    /\ ReplayCall("stateless")

ReplayStatefulCall ==
    /\ pc = "idle"
    /\ hist.stateful_calls < MaxStatefulCalls
    /\ ReplayCall("stateful")

\* the caller keeps what the call returned and the grammar it left
\* (tracery.rs 314-321: let result = StringGenerator::generate(..))
Remember ==
    /\ pc = "done"
    /\ probe = NoProbe
    /\ call.base \in ReplayGrammars
    /\ hist.stateful_calls <= 1
    /\ probe' = [op |-> "remembered", call |-> call, choices |-> hist.choices,
                 ret |-> ret, after |-> grammar, calls |-> hist.stateful_calls]
    /\ UNCHANGED <<grammar, temporary_grammar, pc, call, queue, results, frame,
                   append_to_queue, result, tmp_result, depth, ret, rng_calls, last,
                   hist>>

\* StatefulStringGenerator::set_grammar, tracery.rs 297-299
SetGrammar ==
    /\ pc = "idle"
    /\ \E g \in ReplayGrammars : grammar' = g
    /\ UNCHANGED <<temporary_grammar, pc, call, queue, results, frame, append_to_queue,
                   result, tmp_result, depth, ret, rng_calls, last, hist, probe>>

ReplayNext ==
    \/ ReplayStatelessCall
    \/ ReplayStatefulCall
    \/ DfReady
    \/ DfReplace
    \/ DfImmediateMeta
    \/ DfDelayedMeta
    \/ Return
    \/ Consume
    \/ Remember
    \/ SetGrammar

ReplaySpec == ReplayInit /\ [][ReplayNext]_vars

-----------------------------------------------------------------------------
(* depth_first_processing through the stateless facade, on the test grammar *)
(* and on streams that nest meta-rules or hold many placeholders.           *)

\* the number of placeholders of the long stream
ManyPlaceholders == 26

RECURSIVE Repeat(_, _)
Repeat(s, n) == IF n = 0 THEN <<>> ELSE s \o Repeat(s, n - 1)

DepthFirstStreams ==
    { <<"[","c",":","#","s","#","]","a">>,
      <<"[","c",":","#","s","#","b","]","a">>,
      <<"[","h",":","#","c","#","]","a","#","h","#">>,
      <<"[","w","|","#","c","#","]","#","w","#">>,
      <<"#","t","#","#","c","#">>,
      Repeat(<<"#","t","#">>, ManyPlaceholders) }

DepthFirstInit ==
    /\ grammar = new(RULES, None)
    /\ pc = "idle"
    /\ probe = NoProbe
    /\ AtRest

\* StringGenerator::expand_from(stream, grammar, rng)
DepthFirstCall ==
    /\ pc = "idle"
    /\ \E initial \in DepthFirstStreams : ExpandFrom("stateless", initial)

DepthFirstNext ==
    \/ DepthFirstCall
    \/ DfReady
    \/ DfReplace
    \/ DfImmediateMeta
    \/ DfDelayedMeta
    \/ Return
    \/ Consume

DepthFirstSpec == DepthFirstInit /\ [][DepthFirstNext]_vars

-----------------------------------------------------------------------------
(* StatefulStringGenerator::expand_from on streams whose expansion binds     *)
(* meta-rules and then runs into a rule that never stabilizes.              *)

StatefulExpandStreams ==
    { <<"[","h",":","x","]","[","k",":","#","l","#","]">>,
      <<"[","c",":","y","]","[","k",":","#","l","#","]">>,
      <<"[","w","|","x","]","#","g","#">>,
      <<"[","h",":","#","c","#","]","a","#","h","#">>,
      <<"[","h",":","#","c","#","]">> }

StatefulExpandInit ==
    /\ grammar = new(RULES, None)
    /\ pc = "idle"
    /\ probe = NoProbe
    /\ AtRest

\* generator.expand_from(&stream, rng)
StatefulExpandCall ==
    /\ pc = "idle"
    /\ hist.stateful_calls < MaxStatefulCalls
    /\ \E initial \in StatefulExpandStreams : ExpandFrom("stateful", initial)

StatefulExpandNext ==
    \/ StatefulExpandCall
    \/ DfReady
    \/ DfReplace
    \/ DfImmediateMeta
    \/ DfDelayedMeta
    \/ Return
    \/ Consume

StatefulExpandSpec == StatefulExpandInit /\ [][StatefulExpandNext]_vars

-----------------------------------------------------------------------------
(* A program that expands one stream with depth_first_processing and then   *)
(* with breadth_first_processing, on the same grammar and with the same     *)
(* constant number source (a usize, generator.rs 49-53).                    *)

\* the test rules and three more: v reaches, through q, a meta-rule for the key
\* c that the grammar also has; p holds two placeholders
EquivalenceGrammar ==
    new(RULES \o << << <<"v">>, << <<"#","q","#">> >> >>,
                    << <<"q">>, << <<"[","c",":","a","]">> >> >>,
                    << <<"p">>, << <<"#","c","#","-","#","t","#">> >> >> >>, None)

EquivalenceStreams ==
    { <<"a","b">>,
      <<"#","p","#">>,
      <<"#","c","#","#","p","#">>,
      <<"#","p","#","#","p","#">>,
      <<"b","#","c","#","a","#","t","#">>,
      <<"#","m","#","#","t","#">>,
      <<"#","s","#","a">>,
      <<"#","d","#">>,
      <<"#","v","#","#","c","#">>,
      <<"a","#","e","#">>,
      <<"#","t","#","a","#","u","#">>,
      <<"#","l","#">> }

EquivalenceInit ==
    /\ grammar = EquivalenceGrammar
    /\ pc = "idle"
    /\ probe \in {[op |-> "compare", n |-> n, stream |-> stream,
                    depth_first |-> None, depth |-> 0] :
                       n \in RngVals, stream \in EquivalenceStreams}
    /\ AtRest

\* every query this step made was answered with the constant
ConstantSource == rng_calls' > rng_calls => last'.v = probe.n

\* StringGenerator::expand_from(&stream, &grammar, &mut n): process_stream takes
\* the depth-first branch for a TraceryGrammar
CompareDepthFirst ==
    /\ pc = "idle"
    /\ probe.depth_first = None
    /\ ExpandFrom("stateless", probe.stream)

\* let depth_first = ..: the caller keeps the output
KeepDepthFirst ==
    /\ pc = "done"
    /\ call.op = "expand_from"
    /\ probe.depth_first = None
    /\ probe' = [probe EXCEPT !.depth_first = ret, !.depth = depth]
    /\ UNCHANGED <<grammar, temporary_grammar, pc, call, queue, results, frame,
                   append_to_queue, result, tmp_result, depth, ret, rng_calls, last,
                   hist>>

\* grammar.breadth_first_processing(&stream, &mut tmp, &mut n)
CompareBreadthFirst ==
    /\ pc = "idle"
    /\ probe.depth_first # None
    /\ BreadthFirstEnter(probe.stream)

ConstantDfReplace == DfReplace /\ ConstantSource

ConstantBfReplace == BfReplace /\ ConstantSource

EquivalenceNext ==
    \/ CompareDepthFirst
    \/ KeepDepthFirst
    \/ CompareBreadthFirst
    \/ DfReady
    \/ ConstantDfReplace
    \/ DfImmediateMeta
    \/ DfDelayedMeta
    \/ BfReady
    \/ ConstantBfReplace
    \/ BfImmediateMeta
    \/ BfDelayedMeta
    \/ BfFrameEnd
    \/ Return
    \/ Consume

EquivalenceSpec == EquivalenceInit /\ [][EquivalenceNext]_vars

-----------------------------------------------------------------------------
(* breadth_first_processing called on a grammar, on streams whose immediate *)
(* meta-rules have values that are not yet literal.                         *)

BreadthFirstGrammar ==
    new(RULES \o << << <<"r">>, << <<"[","h",":","#","p","#","]","#","p","#">> >> >>,
                    << <<"p">>, << <<"#","c","#">> >> >> >>, None)

BreadthFirstStreams ==
    { <<"a","b">>,
      <<"a","[","h",":","#","c","#","]">>,
      <<"[","h",":","x","]","#","h","#">>,
      <<"[","h",":","#","c","#","]","#","l","#">>,
      <<"[","h",":","#","u","#","]","#","l","#">>,
      <<"[","k",":","#","r","#","]","#","l","#">>,
      <<"[","c","|","a","]","#","c","#">>,
      <<"[","h",":","#","c","#","#","c","#","]","#","l","#">>,
      <<"#","l","#","[","h",":","#","c","#","]">> }

BreadthFirstInit ==
    /\ grammar = BreadthFirstGrammar
    /\ pc = "idle"
    /\ probe = NoProbe
    /\ AtRest

BreadthFirstCall ==
    /\ pc = "idle"
    /\ \E stream \in BreadthFirstStreams : BreadthFirstEnter(stream)

BreadthFirstNext ==
    \/ BreadthFirstCall
    \/ BfReady
    \/ BfReplace
    \/ BfImmediateMeta
    \/ BfDelayedMeta
    \/ BfFrameEnd
    \/ Return
    \/ Consume

BreadthFirstSpec == BreadthFirstInit /\ [][BreadthFirstNext]_vars

-----------------------------------------------------------------------------
(* Properties                                                              *)

\* the state right after an iteration of the depth-first loop
AfterDepthFirstStep ==
    call.facade \in {"stateless", "stateful"} /\ pc \in {"depth_first", "return"}

IsInfix(sub, s) ==
    \E i \in 0..(Len(s) - Len(sub)) : SubSeq(s, i + 1, i + Len(sub)) = sub

\* C1: once a stateful call has processed an immediate meta-rule [k:v] and
\* returned, a placeholder #k# in a later stateful call that has not rebound k
\* resolves from the base grammar to the single literal value the earlier call
\* bound, whatever the number source returns.
StatefulCommitLaw ==
    (/\ call.facade = "stateful"
     /\ AfterDepthFirstStep
     /\ last.item.type = "Replace"
     /\ last.item.key \in hist.promised \ hist.metas)
    => /\ last.item.key \in DOMAIN hist.bound
       /\ last.source = "base"
       /\ last.queried = Some(<< hist.bound[last.item.key] >>)
       /\ last.resolved = Some(hist.bound[last.item.key])

\* the same law for the bindings that reached the scratch grammar
CommittedBindingLaw ==
    (/\ call.facade = "stateful"
     /\ AfterDepthFirstStep
     /\ last.item.type = "Replace"
     /\ last.item.key \in (DOMAIN hist.bound) \ hist.metas)
    => /\ last.source = "base"
       /\ last.queried = Some(<< hist.bound[last.item.key] >>)
       /\ last.resolved = Some(hist.bound[last.item.key])

\* C2: when a placeholder's key has a rule in neither grammar, the text
\* returned by the call contains the placeholder itself, #k#.
UnknownKeyVisible ==
    pc = "return" =>
        \A k \in hist.unknown :
            (~has_rule(temporary_grammar, k) /\ ~has_rule(grammar, k))
            => IsInfix(rule_to_default_result(k), result)

\* the same for breadth_first_processing alone
UnknownKeyVisibleBreadthFirst == call.facade = "direct" => UnknownKeyVisible

\* C3: select_from_rule on a rule with n >= 1 options, given v by the number
\* source, answers the option at index min(n - 1, v): option v when v < n, the
\* last option when v >= n; it always answers with an option.
SelectFromRuleClamps ==
    (IsSome(last.queried) /\ Len(Unwrap(last.queried)) >= 1)
    => \E options \in {Unwrap(last.queried)} :
          /\ IsSome(last.answer)
          /\ last.v < Len(options) => Unwrap(last.answer) = options[last.v + 1]
          /\ last.v >= Len(options) => Unwrap(last.answer) = options[Len(options)]

\* a value at or beyond the number of options was returned and clamped
SelectFromRuleClamped ==
    /\ IsSome(last.queried)
    /\ Len(Unwrap(last.queried)) = 2
    /\ last.v >= 2
    /\ last.answer = Some(Unwrap(last.queried)[2])

\* C4: generate and generate_at return None exactly when the starting key has
\* no rule or its rule has zero options; otherwise they return a text.
GenerateNoneIffNoOptions ==
    (pc = "done" /\ call.op \in {"generate", "generate_at"})
    => (ret = None <=> (call.options = None \/ call.options = Some(<<>>)))

\* generate_at on a key whose rule has zero options returned None
GenerateAtZeroOptions ==
    /\ pc = "done"
    /\ call.op = "generate_at"
    /\ call.options = Some(<<>>)
    /\ ret = None

InLoop == pc \in {"depth_first", "breadth_first"}

\* every iteration moves towards the loop's exit: the depth counter grows, or the
\* queue shrinks, or the frame being mapped shrinks
Progress ==
    \/ ~InLoop'
    \/ depth' = depth + 1
    \/ depth' = depth /\ Len(queue') < Len(queue)
    \/ depth' = depth /\ queue' = queue /\ Len(frame'.current) < Len(frame.current)

\* C5: both strategies terminate: the depth counter never exceeds max_depth, the
\* loop is left as soon as the counter reaches max_depth, an iteration always
\* has a token to take, and every iteration makes progress towards the exit.
ExpansionTerminates ==
    /\ [](/\ depth <= max_depth
          /\ InLoop => depth < max_depth
          /\ pc = "depth_first" => queue # <<>>)
    /\ [][InLoop => Progress]_vars

\* a self-referential rule stopped at the ceiling
StoppedAtCeiling ==
    /\ pc = "return"
    /\ depth = max_depth
    /\ call.key = Some(<<"l">>)

\* C6: a stream with no '#' and no '[' is returned unchanged by both
\* strategies: no iteration is counted, the number source is not queried by the
\* expansion and no rule is added to the scratch grammar.
LiteralStreamUnchanged ==
    (/\ pc \in {"return", "done"}
     /\ IsSome(call.initial)
     /\ ~Contains(Unwrap(call.initial), "#")
     /\ ~Contains(Unwrap(call.initial), "["))
    => /\ pc = "return" => result = Unwrap(call.initial)
       /\ pc = "done" => ret = call.initial
       /\ rng_calls = (IF IsSome(call.key) THEN 1 ELSE 0)
       /\ temporary_grammar = empty

\* generate on a grammar whose starting rule is one literal (with a stray ']')
\* returned that literal
LiteralStreamReturned ==
    /\ pc = "done"
    /\ call.op = "generate"
    /\ call.options = Some(<< <<"a", "]">> >>)
    /\ ret = Some(<<"a", "]">>)

\* C7: within one depth-first expansion, once an immediate meta-rule [k:v] has
\* been processed, a later placeholder #k# of the stream resolves from the
\* scratch grammar to the single literal value bound for k.
ImmediateBindingStable ==
    (/\ AfterDepthFirstStep
     /\ last.item.type = "Replace"
     /\ last.target = None
     /\ last.item.key \in hist.opened)
    => /\ last.source = "scratch"
       /\ Len(Unwrap(last.queried)) = 1
       /\ ~Contains(Unwrap(last.resolved), "#")

\* the popped delayed meta-rule token of the step about to be taken
DelayedToken ==
    IF pc = "depth_first" THEN Top(queue).item ELSE Head(frame.current)

\* C8: processing a delayed meta-rule [k|v] leaves in the scratch grammar a
\* rule for k whose only option is the raw text v; the step queries no number
\* and schedules nothing of v for expansion.
DelayedMetaRegistersRawText ==
    [][(DfPopped("DelayedMeta") \/ BfMapping("DelayedMeta")) =>
        /\ get_rule_options(temporary_grammar', DelayedToken.key)
                = Some(<< DelayedToken.value >>)
        /\ rng_calls' = rng_calls
        /\ pc = "depth_first" => queue' = Pop(queue) /\ Len(results') <= Len(results)
        /\ pc = "breadth_first" =>
                frame'.next = frame.next /\ append_to_queue' = append_to_queue]_vars

\* two references to one delayed key were expanded to different options
DelayedRedrawn ==
    /\ pc = "done"
    /\ call.key = Some(<<"d">>)
    /\ ret = Some(<<"x", "y">>)

\* C9: a placeholder #k# is resolved from the scratch grammar's rule for k if
\* there is one, otherwise from the base grammar's rule, otherwise it becomes
\* the default result.
ScratchBeforeBaseBeforeDefault ==
    (pc \in {"depth_first", "breadth_first", "return"} /\ last.item.type = "Replace")
    => \E key \in {last.item.key} :
          IF has_rule(temporary_grammar, key) /\ temporary_grammar.rules[key] # <<>>
          THEN /\ last.source = "scratch"
               /\ \E i \in DOMAIN temporary_grammar.rules[key] :
                      last.resolved = Some(temporary_grammar.rules[key][i])
          ELSE IF has_rule(grammar, key) /\ grammar.rules[key] # <<>>
          THEN /\ last.source = "base"
               /\ \E i \in DOMAIN grammar.rules[key] :
                      last.resolved = Some(grammar.rules[key][i])
          ELSE /\ last.source = "default"
               /\ last.resolved = Some(rule_to_default_result(key))

\* a key rebound in a later stateful call: the placeholder took the scratch
\* value although the base grammar holds another value for the key
RebindingShadowsBase ==
    /\ pc \in {"depth_first", "return"}
    /\ call.facade = "stateful"
    /\ last.item.type = "Replace"
    /\ last.item.key \in DOMAIN hist.bound
    /\ last.source = "scratch"
    /\ has_rule(grammar, last.item.key)
    /\ grammar.rules[last.item.key] # temporary_grammar.rules[last.item.key]

\* C10: a call through the stateless generator never changes the grammar, and
\* starts from an empty scratch grammar.
StatelessLeavesGrammarUnchanged ==
    [][call'.facade = "stateless" =>
        /\ grammar' = grammar
        /\ pc = "idle" => temporary_grammar' = empty]_vars

\* a stateless call bound h, used it and returned; the grammar has no rule for h
StatelessBindingDiscarded ==
    /\ pc = "done"
    /\ call.facade = "stateless"
    /\ call.op = "generate"
    /\ ret = Some(<<"a", "x">>)
    /\ ~has_rule(grammar, <<"h">>)

\* C11: after copy_and_replace_rules(other) every key of other has in the
\* receiver exactly other's options, every key that only the receiver had is
\* still there with its options, and the starting point is unchanged.
CopyKeepsReceiverRules ==
    probe.op = "copy_and_replace_rules" =>
        /\ \A k \in DOMAIN probe.other.rules :
               get_rule_options(grammar, k) = Some(probe.other.rules[k])
        /\ \A k \in (DOMAIN probe.self.rules) \ (DOMAIN probe.other.rules) :
               get_rule_options(grammar, k) = Some(probe.self.rules[k])
        /\ DOMAIN grammar.rules = (DOMAIN probe.self.rules) \cup (DOMAIN probe.other.rules)
        /\ default_starting_point(grammar) = default_starting_point(probe.self)

\* a copy that replaced the options of one key and left another key of the
\* receiver alone
CopyReplacedOneKeptOne ==
    /\ probe.op = "copy_and_replace_rules"
    /\ \E k \in DOMAIN probe.other.rules :
           k \in DOMAIN probe.self.rules /\ probe.self.rules[k] # probe.other.rules[k]
    /\ \E k \in DOMAIN probe.self.rules : k \notin DOMAIN probe.other.rules
    /\ default_starting_point(probe.self) # default_starting_point(probe.other)

\* C12: after set_additional_rules(key, values) the options of key are exactly
\* values, has_rule(key) holds, and every other key has the options it had.
SetOverrides ==
    probe.op = "set_additional_rules" =>
        /\ get_rule_options(grammar, probe.rule) = Some(probe.values)
        /\ has_rule(grammar, probe.rule)
        /\ \A k \in (DOMAIN probe.self.rules) \ {probe.rule} :
               get_rule_options(grammar, k) = Some(probe.self.rules[k])
        /\ DOMAIN grammar.rules = (DOMAIN probe.self.rules) \cup {probe.rule}

\* a key that had options was given other options, next to another key
SetOverrodeOptions ==
    /\ probe.op = "set_additional_rules"
    /\ has_rule(probe.self, probe.rule)
    /\ probe.self.rules[probe.rule] # <<>>
    /\ probe.self.rules[probe.rule] # probe.values
    /\ \E k \in DOMAIN probe.self.rules : k # probe.rule

KeySet(g) == {rule_keys(g)[i] : i \in 1..Len(rule_keys(g))}

\* C13: the keys in the key list are exactly the keys of the rule mapping.
KeysMatchRules == KeySet(grammar) = DOMAIN grammar.rules

\* a key new to a deserialized grammar was set
SetNewKeyAfterDeserialize ==
    /\ probe.op = "set_additional_rules"
    /\ ~has_rule(probe.self, probe.rule)
    /\ Len(rule_keys(probe.self)) >= 1
    /\ has_rule(grammar, probe.rule)

\* C14: the key list holds no key twice: its length is the number of rules.
NoDuplicateKeys ==
    /\ \A i, j \in 1..Len(rule_keys(grammar)) :
           rule_keys(grammar)[i] = rule_keys(grammar)[j] => i = j
    /\ Len(rule_keys(grammar)) = Cardinality(DOMAIN grammar.rules)

\* C15: every number source answers get_number(0) with 0.
GetNumberZeroIsZero ==
    (probe.op = "get_number" /\ probe.len = 0) => probe.out = 0

\* every number source other than the constant one answers get_number(0) with 0
GetNumberZeroIsZeroUnlessConstant ==
    (probe.op = "get_number" /\ probe.len = 0 /\ probe.adapter # "usize")
        => probe.out = 0

After(s, i) == SubSeq(s, i + 1, Len(s))

Separators == {":", "|"}

RECURSIVE WellFormedWith(_, _)
\* s starts with '[' and j is the position of the first ']': the segment has a
\* separator, no '[' inside and, if plain, a value that is not empty and holds no
\* separator
WellFormedBracket(s, j, p, plain) ==
    /\ j > 0
    /\ p > 0
    /\ ~Contains(SubSeq(s, 2, j - 1), "[")
    /\ plain => (p + 2 <= j - 1 /\ FirstOf(SubSeq(s, p + 2, j - 1), Separators) = 0)
    /\ WellFormedWith(After(s, j), plain)

\* s starts with '#' and j is the position in Tail(s) of the closing '#'
WellFormedReference(s, j, plain) ==
    /\ j > 0
    /\ \A i \in 2..j : s[i] \notin {"[", "]"}
    /\ WellFormedWith(After(s, j + 1), plain)

\* s starts with text and j is the position of its first delimiter (0: none)
WellFormedText(s, j, plain) ==
    j = 0 \/ WellFormedWith(SubSeq(s, j, Len(s)), plain)

\* s is a sequence of text, #key# and [key:value] / [key|value] segments
WellFormedWith(s, plain) ==
    IF s = <<>> THEN TRUE
    ELSE IF s[1] = "[" THEN
        WellFormedBracket(s, FirstOf(s, {"]"}),
                          FirstOf(SubSeq(s, 2, FirstOf(s, {"]"}) - 1), Separators), plain)
    ELSE IF s[1] = "#" THEN WellFormedReference(s, FirstOf(Tail(s), {"#"}), plain)
    ELSE IF s[1] = "]" THEN FALSE
    ELSE WellFormedText(s, FirstOf(s, {"[", "#", "]"}), plain)

WellFormed(s) == WellFormedWith(s, FALSE)

RECURSIVE Expected(_)
\* the meta token of the bracket segment s[1..j] whose first separator is s[p + 1]
ExpectedBracket(s, j, p) ==
    <<IF s[p + 1] = ":"
      THEN ImmediateMeta(SubSeq(s, 2, p), SubSeq(s, p + 2, j - 1))
      ELSE DelayedMeta(SubSeq(s, 2, p), SubSeq(s, p + 2, j - 1))>>
    \o Expected(After(s, j))

ExpectedReference(s, j) == <<Replace(SubSeq(s, 2, j))>> \o Expected(After(s, j + 1))

ExpectedText(s, j) ==
    IF j = 0 THEN <<Ready(s)>>
    ELSE <<Ready(SubSeq(s, 1, j - 1))>> \o Expected(SubSeq(s, j, Len(s)))

\* the tokens of a well-formed stream, read left to right
Expected(s) ==
    IF s = <<>> THEN <<>>
    ELSE IF s[1] = "[" THEN
        ExpectedBracket(s, FirstOf(s, {"]"}),
                        FirstOf(SubSeq(s, 2, FirstOf(s, {"]"}) - 1), Separators))
    ELSE IF s[1] = "#" THEN ExpectedReference(s, FirstOf(Tail(s), {"#"}))
    ELSE ExpectedText(s, FirstOf(s, {"[", "#", "]"}))

\* C18: for a stream made of text, #key# and [key:value] / [key|value] segments,
\* check_token_stream returns, in source order, Ready for the text, Replace(key)
\* for #key#, and ImmediateMeta / DelayedMeta(key, value) for a bracket segment,
\* key being the text before the first separator and value all the text from
\* there to the closing bracket.
MetaSyntaxExact ==
    (probe.op = "check_token_stream" /\ WellFormed(probe.stream))
        => probe.out.tokens = Expected(probe.stream)

\* the same for streams whose meta-rule values are not empty and hold no separator
MetaSyntaxExactForPlainValues ==
    (probe.op = "check_token_stream" /\ WellFormedWith(probe.stream, TRUE))
        => probe.out.tokens = Expected(probe.stream)

AllReady(tokens) == \A i \in 1..Len(tokens) : tokens[i].type = "Ready"

\* C19: check_token_stream answers is_fully_resolved = true exactly when every
\* token it returns is Ready.
FullyResolvedIffAllReady ==
    probe.op = "check_token_stream"
        => (probe.out.skippable <=> AllReady(probe.out.tokens))

\* is_fully_resolved = true only when every token returned is Ready
FullyResolvedOnlyIfAllReady ==
    (probe.op = "check_token_stream" /\ probe.out.skippable)
        => AllReady(probe.out.tokens)

Count(s, c) == Cardinality({i \in 1..Len(s) : s[i] = c})

\* a single '#' and no bracket: the '#' is unmatched
UnmatchedHash(s) ==
    Count(s, "#") = 1 /\ ~Contains(s, "[") /\ ~Contains(s, "]")

\* brackets, but no separator and no '#': unmatched brackets or a bracket segment
\* without ':' or '|'
BracketsWithoutSeparator(s) ==
    /\ Contains(s, "[") \/ Contains(s, "]")
    /\ \A i \in 1..Len(s) : s[i] \notin Separators \cup {"#"}

\* C20: a stream with an unmatched '#', an unmatched bracket or a bracket
\* segment without separator is returned as Ready tokens only: no Replace and no
\* meta token.
MalformedIsLiteral ==
    (/\ probe.op = "check_token_stream"
     /\ UnmatchedHash(probe.stream) \/ BracketsWithoutSeparator(probe.stream))
        => AllReady(probe.out.tokens)

\* the same for the malformed brackets alone
MalformedBracketsAreLiteral ==
    (probe.op = "check_token_stream" /\ BracketsWithoutSeparator(probe.stream))
        => AllReady(probe.out.tokens)

\* a later call that started from the remembered call's grammar, key and first
\* selection and made the same selections
SameRun ==
    /\ pc = "done"
    /\ probe.op = "remembered"
    /\ call.base = probe.call.base
    /\ call.key = probe.call.key
    /\ call.initial = probe.call.initial
    /\ hist.choices = probe.choices

Replayed ==
    SameRun => /\ ret = probe.ret
               /\ (call.facade = "stateful" /\ probe.call.facade = "stateful")
                      => grammar = probe.after

PinnedZeroSelectsFirst ==
    (/\ last.v = 0
     /\ last.source \in {"base", "scratch"}
     /\ IsSome(last.queried)
     /\ Unwrap(last.queried) # <<>>)
        => last.answer = Some(Unwrap(last.queried)[1])

\* C16: two generate calls on equal grammars whose number sources lead to the same
\* selections return equal outputs and, on the stateful generator, leave equal
\* grammars; a selection whose number source returned 0 takes the first option.
DeterministicInNumberSource == Replayed /\ PinnedZeroSelectsFirst

\* a stateful run repeated after set_grammar, with selections made and a grammar
\* changed by the run
ReplayedStatefulRun ==
    /\ SameRun
    /\ call.facade = "stateful"
    /\ probe.call.facade = "stateful"
    /\ hist.stateful_calls > probe.calls
    /\ hist.choices # <<>>
    /\ probe.after # probe.call.base
    /\ IsSome(ret)

RECURSIVE RefTokens(_, _, _)
RefFail == [out |-> <<>>, rest |-> <<>>, ok |-> FALSE]

RefThen(first, then) ==
    [out |-> first.out \o then.out, rest |-> then.rest, ok |-> first.ok /\ then.ok]

RefAfter(g, tokens, first) ==
    IF first.ok THEN RefThen(first, RefTokens(g, tokens, first.rest)) ELSE RefFail

\* the expansion of a text without brackets
RefText(g, text, choices) ==
    IF Contains(text, "[") THEN RefFail
    ELSE RefTokens(g, check_token_stream(text).tokens, choices)

\* the reference expansion of tokens, left to right, taking the option choices[1]
\* for the first placeholder met: out is the text, rest the choices left, ok
\* whether every placeholder had a rule, an option for its choice and no bracket
RefTokens(g, tokens, choices) ==
    IF tokens = <<>> THEN [out |-> <<>>, rest |-> choices, ok |-> TRUE]
    ELSE IF Head(tokens).type = "Ready"
    THEN RefAfter(g, Tail(tokens), [out |-> Head(tokens).value, rest |-> choices, ok |-> TRUE])
    ELSE IF /\ Head(tokens).type = "Replace"
            /\ choices # <<>>
            /\ has_rule(g, Head(tokens).key)
    THEN IF Head(choices) < Len(g.rules[Head(tokens).key])
         THEN RefAfter(g, Tail(tokens),
                       RefText(g, g.rules[Head(tokens).key][Head(choices) + 1],
                               Tail(choices)))
         ELSE RefFail
    ELSE RefFail

\* C17: when the selected template and every option selected under it hold no
\* bracket, every placeholder met has a rule, and the depth ceiling is not
\* reached, generate returns the reference expansion: literal segments and
\* recursively expanded selected options, concatenated in source order.
ReferenceExpansion ==
    (/\ pc = "done"
     /\ call.op \in {"generate", "generate_at"}
     /\ IsSome(call.initial)
     /\ depth < max_depth)
        => \A R \in {RefText(call.base, Unwrap(call.initial), hist.choices)} :
              R.ok => (ret = Some(R.out) /\ R.rest = <<>>)

\* a nested template expanded with three selections under it, not all the same
NestedExpanded ==
    /\ pc = "done"
    /\ call.op = "generate"
    /\ call.base = Nested
    /\ depth < max_depth
    /\ Len(hist.choices) = 3
    /\ hist.choices[1] # hist.choices[3]
    /\ RefText(call.base, Unwrap(call.initial), hist.choices).ok
    /\ ret = Some(RefText(call.base, Unwrap(call.initial), hist.choices).out)

\* C21: the base grammar changes in one step only: the commit of a stateful
\* call, after the processing has returned, by copy_and_replace_rules from the
\* scratch grammar.  No step of an expansion in flight changes it.
BaseChangesOnlyAtCommit ==
    [][grammar' # grammar =>
          /\ pc = "return"
          /\ call.facade = "stateful"
          /\ grammar' = copy_and_replace_rules(grammar, temporary_grammar)]_vars

\* a stateful expansion in flight that has bound a rule in the scratch grammar
\* while the base grammar is the one the call started from
ScratchBoundInFlight ==
    /\ pc = "depth_first"
    /\ call.facade = "stateful"
    /\ temporary_grammar.rules # empty.rules
    /\ grammar = call.base
    /\ \E k \in DOMAIN temporary_grammar.rules : ~has_rule(grammar, k)

\* C22: a grammar built by empty, or by new or deserialization without a starting
\* key, starts at "origin"; with a starting key it starts at that key; and the key
\* list of a deserialized grammar is exactly the keys of its rule mapping.
StartingPointDefaultsToOrigin ==
    /\ probe.op = "empty" => default_starting_point(grammar) = <<"o","r","i","g","i","n">>
    /\ probe.op \in {"new", "deserialize"} =>
           default_starting_point(grammar) =
               IF IsSome(probe.starting_point) THEN Unwrap(probe.starting_point)
               ELSE <<"o","r","i","g","i","n">>
    /\ probe.op = "deserialize" =>
           /\ KeySet(grammar) = DOMAIN probe.rules
           /\ Len(rule_keys(grammar)) = Cardinality(DOMAIN probe.rules)
           /\ grammar.rules = probe.rules

\* a document with two rules and no starting point was deserialized
DeserializedWithoutStartingPoint ==
    /\ probe.op = "deserialize"
    /\ probe.starting_point = None
    /\ Cardinality(DOMAIN probe.rules) = 2
    /\ Len(rule_keys(grammar)) = 2

\* C23: when a depth-first expansion returns below the depth ceiling, every key
\* whose immediate meta-rule was processed has its rule committed in the scratch
\* grammar.
ImmediateMetaCommittedAtReturn ==
    (/\ pc = "return"
     /\ call.op \in {"generate", "generate_at", "expand_from"}
     /\ depth < max_depth)
        => \A k \in hist.opened : k \in hist.immediate /\ has_rule(temporary_grammar, k)

\* the same for immediate meta-rules that are followed by a token of the root
\* stream
ImmediateMetaCommittedBeforeRootToken ==
    (/\ pc = "depth_first"
     /\ last.target = None
     /\ last.item.type \in {"Ready", "Replace"}
     /\ Len(results) = 1)
        => \A k \in hist.opened : has_rule(temporary_grammar, k)

\* C24: a Ready token popped by the depth-first loop is appended to the
\* accumulator of its own target.
ReadyAppendedToOwnTarget ==
    (last.item.type = "Ready" /\ IsSome(last.appended))
        => last.appended = Some(last.target)

\* C25: the option committed for the key of an immediate meta-rule, by the
\* depth-first or the breadth-first loop, is fully expanded: check_token_stream
\* reports it fully resolved.
ImmediateValueFullyExpanded ==
    IsSome(last.committed)
        => \A i \in 1..Len(Unwrap(last.committed).values) :
              check_token_stream(Unwrap(last.committed).values[i]).skippable

\* the same for the commits of the depth-first loop alone
DepthFirstCommitsFullyExpanded ==
    (IsSome(last.committed) /\ call.op # "breadth_first_processing")
        => \A i \in 1..Len(Unwrap(last.committed).values) :
              check_token_stream(Unwrap(last.committed).values[i]).skippable

\* the targeted frames still waiting when the loop has ended
PendingTargets ==
    {queue[i].target : i \in 1..Len(queue)}
        \cup {append_to_queue[i].target : i \in 1..Len(append_to_queue)}

\* C26: a breadth-first expansion that ends below the depth ceiling leaves no
\* targeted frame pending, and every immediate meta-rule it met, queued under its
\* key or not, is a rule of the scratch grammar when the call returns
BreadthFirstPendingCommitted ==
    (pc = "return" /\ call.op = "breadth_first_processing" /\ depth < max_depth)
        => /\ \A t \in PendingTargets : ~IsSome(t)
           /\ \A k \in hist.opened : has_rule(temporary_grammar, k)

\* the frame at the end of its iteration is about to be committed by the
\* fixed-point check: its new stream is the remembered one
FixedPointFires ==
    /\ pc = "breadth_first" /\ frame.current = <<>>
    /\ IsSome(frame.target) /\ IsSome(tmp_result)
    /\ Unwrap(tmp_result) = result_to_stream(frame.next)

\* C27: in breadth-first expansion a targeted frame is committed by the
\* fixed-point check only when the remembered stream it equals was produced by
\* the previous iteration of a frame with the same target key
FixedPointPerTarget == FixedPointFires => hist.tmp_target = frame.target

\* the keys a token sequence refers to, those in the values of its meta-rules
\* included, and the meta-rules it holds
ReplaceKeys(tokens) ==
    {tokens[i].key : i \in {j \in 1..Len(tokens) : tokens[j].type = "Replace"}}

MetaTokens(tokens) ==
    {tokens[i] : i \in {j \in 1..Len(tokens) :
                            tokens[j].type \in {"ImmediateMeta", "DelayedMeta"}}}

StreamRefs(stream) ==
    ReplaceKeys(check_token_stream(stream).tokens)
        \cup UNION {ReplaceKeys(check_token_stream(m.value).tokens) :
                        m \in MetaTokens(check_token_stream(stream).tokens)}

StreamMetas(stream) == MetaTokens(check_token_stream(stream).tokens)

\* every meta-rule written in the stream or in an option of the grammar
AllMetas(g, stream) ==
    StreamMetas(stream)
        \cup UNION {UNION {StreamMetas(g.rules[k][i]) : i \in 1..Len(g.rules[k])} :
                        k \in DOMAIN g.rules}

\* the keys one expansion step of `k` can bring in
Edges(g, stream, k) ==
    (IF has_rule(g, k)
     THEN UNION {StreamRefs(g.rules[k][i]) : i \in 1..Len(g.rules[k])}
     ELSE {})
        \cup UNION {StreamRefs(m.value) : m \in {n \in AllMetas(g, stream) : n.key = k}}

RECURSIVE ReachFrom(_, _, _, _)
ReachFrom(g, stream, keys, n) ==
    IF n = 0 THEN keys
    ELSE ReachFrom(g, stream,
                   keys \cup UNION {Edges(g, stream, k) : k \in keys}, n - 1)

\* no unknown key and no cyclic reference among the rules the stream can reach
Acyclic(g, stream) ==
    \A k \in ReachFrom(g, stream, StreamRefs(stream), Cardinality(DOMAIN g.rules) + 2) :
        /\ has_rule(g, k) \/ \E m \in AllMetas(g, stream) : m.key = k
        /\ k \notin ReachFrom(g, stream, Edges(g, stream, k),
                               Cardinality(DOMAIN g.rules) + 2)

\* C28: an expansion over rules without cyclic references and without unknown
\* keys ends with its queue used up, whatever the number of tokens: the depth
\* ceiling never cuts it off
CeilingOnlyCutsCycles ==
    (pc = "return" /\ call.op = "expand_from"
        /\ Acyclic(call.base, Unwrap(call.initial)))
        => queue = <<>>

\* C29: check_token_stream never emits an empty Ready token: every Ready token
\* of the returned sequence carries non-empty text
NoEmptyReady ==
    probe.op = "check_token_stream"
        => \A i \in 1..Len(probe.out.tokens) :
              probe.out.tokens[i].type = "Ready" => probe.out.tokens[i].value # <<>>

\* two adjacent placeholders parsed: the empty segments before, between and after
\* them give no token
AdjacentPlaceholdersParsed ==
    /\ probe.op = "check_token_stream"
    /\ probe.stream = <<"#", "a", "#", "#", "a", "#">>
    /\ probe.out.tokens = <<Replace(<<"a">>), Replace(<<"a">>)>>

DepthFirstReturns ==
    pc = "return" /\ call.op \in {"generate", "generate_at", "expand_from"}

\* C30: the stream depth_first_processing returns holds no '#' and no '[', whether
\* the loop ended with its queue used up or at the depth ceiling:
\* check_token_stream reports it fully resolved
DepthFirstOutputIsLiteral ==
    DepthFirstReturns
        => /\ ~Contains(result, "#")
           /\ ~Contains(result, "[")
           /\ check_token_stream(result).skippable

\* an expansion cut off at the depth ceiling, with tokens left in the queue,
\* returns the text gathered so far
CutOffWithText ==
    /\ DepthFirstReturns
    /\ depth = max_depth
    /\ queue # <<>>
    /\ result # <<>>

IsPrefix(s, t) == Len(s) <= Len(t) /\ SubSeq(t, 1, Len(s)) = s

\* what depth_first_processing returns if its loop stops now: the text of the root
\* accumulator, generator.rs 327-328
RootText == result_to_stream(results[1].values)

\* C31: in depth-first expansion the result obtained at the depth ceiling is a
\* prefix of the full result: each iteration, which is what one more unit of
\* max_depth allows, only extends the text the loop would return, and the loop
\* returns that text
CeilingResultIsPrefix ==
    [][pc = "depth_first"
          => /\ depth' = depth + 1
             /\ IsPrefix(RootText, RootText')
             /\ pc' = "return" => result' = RootText']_vars

\* a loop cut off at the ceiling after its root text grew with some iteration
CutOffAfterGrowth ==
    /\ pc = "return"
    /\ call.op = "expand_from"
    /\ depth = max_depth
    /\ queue # <<>>
    /\ Len(result) >= 2
    /\ last.item.type = "Ready"

\* C32: in one expansion the number source is queried exactly once by the step
\* of a placeholder that resolves to an option of a rule (of the scratch or of
\* the base grammar), and not at all by the step of a placeholder whose key has
\* no rule in either grammar, of a literal token or of a meta-rule token
OneQueryPerResolvedPlaceholder ==
    [][InLoop =>
          /\ last'.source \in {"scratch", "base"} => rng_calls' = rng_calls + 1
          /\ (last'.item.type = "Replace"
                /\ ~has_rule(temporary_grammar', last'.item.key)
                /\ ~has_rule(grammar, last'.item.key)) => rng_calls' = rng_calls
          /\ last'.item.type # "Replace" => rng_calls' = rng_calls]_vars

\* an expansion of a stream with meta-rules that made two selections or more,
\* one of them from the scratch grammar, each with one query
QueriedOncePerSelection ==
    /\ InLoop
    /\ call.op \in {"expand_from", "breadth_first_processing"}
    /\ hist.metas # {}
    /\ last.source = "scratch"
    /\ rng_calls >= 2
    /\ rng_calls = Len(hist.choices)

StatefulReturnedNone ==
    /\ pc = "done"
    /\ call.facade = "stateful"
    /\ call.op \in {"generate", "generate_at"}
    /\ ret = None

\* C33: a stateful generate or generate_at call that returns None leaves the
\* owned grammar as it was before the call: rules, key list and starting point
NoneLeavesGrammarUnchanged ==
    StatefulReturnedNone
        => /\ grammar.rules = call.base.rules
           /\ grammar.keys = call.base.keys
           /\ grammar.starting_point = call.base.starting_point

\* a stateful call on an absent key after an earlier stateful call committed
StatefulNoneOnAbsentKey ==
    /\ StatefulReturnedNone
    /\ call.options = None
    /\ hist.stateful_calls >= 1

\* a stateful call on a key with zero options
StatefulNoneOnZeroOptions ==
    /\ StatefulReturnedNone
    /\ call.options = Some(<<>>)

\* the keys of the accumulators still open when the loop has ended
OpenTargets == {Unwrap(results[i].target) : i \in 2..Len(results)}

\* C34: the stateful expand_from merges the scratch grammar into the owned
\* grammar after every expansion, at the depth ceiling too: every rule of the
\* scratch grammar is a rule of the owned grammar after the call, and the key of
\* an accumulator still open gets nothing from it, the owned grammar keeping for
\* that key what the scratch grammar or it already held
ExpandFromMergesScratch ==
    [][(pc = "return" /\ call.facade = "stateful" /\ call.op = "expand_from")
          => /\ \A k \in DOMAIN temporary_grammar.rules :
                    has_rule(grammar', k)
                        /\ grammar'.rules[k] = temporary_grammar.rules[k]
             /\ \A k \in OpenTargets \ DOMAIN temporary_grammar.rules :
                    /\ has_rule(grammar', k) <=> has_rule(grammar, k)
                    /\ has_rule(grammar, k) => grammar'.rules[k] = grammar.rules[k]]_vars

\* after an expansion cut off at the ceiling: h, committed to the scratch grammar
\* before the ceiling, is bound in the owned grammar; k, whose accumulator was
\* open, is not
MergedAtCeiling ==
    /\ pc = "done"
    /\ call.facade = "stateful"
    /\ call.initial = Some(<<"[","h",":","x","]","[","k",":","#","l","#","]">>)
    /\ depth = max_depth
    /\ ~has_rule(call.base, <<"h">>)
    /\ has_rule(grammar, <<"h">>)
    /\ grammar.rules[<<"h">>] = << <<"x">> >>
    /\ ~has_rule(grammar, <<"k">>)

\* the keys whose rule in g is not the rule they had in old
Rebound(old, g) ==
    {k \in DOMAIN g.rules : ~has_rule(old, k) \/ g.rules[k] # old.rules[k]}

\* C35: every rule written into the scratch grammar during an expansion, by
\* either strategy, has exactly one option, and so has every rule a stateful
\* call writes into the owned grammar
MetaRulesHaveOneOption ==
    [][/\ \A k \in Rebound(temporary_grammar, temporary_grammar') :
              Len(temporary_grammar'.rules[k]) = 1
       /\ \A k \in Rebound(grammar, grammar') : Len(grammar'.rules[k]) = 1]_vars

\* a stateful call has bound a key to the single option folded from the several
\* values of its accumulator
FoldedBindingCommitted ==
    /\ pc = "done"
    /\ call.facade = "stateful"
    /\ \E k \in Rebound(call.base, grammar) :
           Len(grammar.rules[k]) = 1 /\ Len(grammar.rules[k][1]) >= 2

\* both strategies have returned, neither at the depth ceiling, for a stream
\* without meta-rules over rules without cyclic references or unknown keys
BothReturned ==
    /\ pc = "done"
    /\ probe.op = "compare"
    /\ call.op = "breadth_first_processing"
    /\ probe.depth < max_depth
    /\ depth < max_depth
    /\ StreamMetas(probe.stream) = {}
    /\ Acyclic(grammar, probe.stream)

ReachableMetas(g, stream) ==
    UNION {UNION {StreamMetas(g.rules[k][i]) : i \in 1..Len(g.rules[k])} :
              k \in {r \in ReachFrom(g, stream, StreamRefs(stream),
                                      Cardinality(DOMAIN g.rules) + 2) : has_rule(g, r)}}

====
